---- MODULE Spec2Model ----
(***************************************************************************)
(* TokenGo: the Relay's Exit registry, the Relay QUIC server's handlers    *)
(* for Exit tunnels (register, heartbeat, teardown) and for Client         *)
(* streams (lookup, open a forwarding stream, forward), and the periodic   *)
(* heartbeat cleanup, as a state machine.                                  *)
(***************************************************************************)
EXTENDS Integers, Sequences, FiniteSets, TLC

(***************************************************************************)
(* Bounds of the model.                                                    *)
(***************************************************************************)
NumConns == 2
NumHashes == 2
NumHandlers == 2
MaxTime == 90
MaxChunks == 1
MaxWaits == 8
MaxAcks == 2
MaxOutages == 3
MaxEvents == 3

(***************************************************************************)
(* Program constants (seconds).                                            *)
(***************************************************************************)
TTL == 60
StartBackoff == 3
ReconnectBackoff == 1
maxBackoff == 60
maxTargetSize == 1024
\* 16 * 1024 * 1024
maxPayloadSize == 16777216
\* the clock is observed at the firings of the cleanup ticker (timeout / 2)
ClockStep == TTL \div 2

Conns == 1..NumConns
NoConn == 0
ClientConn == -1
Hashes == 1..NumHashes
NoTarget == 0
Handlers == 1..NumHandlers
EmptyKeyConfig == 0
KeyConfigs == {EmptyKeyConfig, 1}
NoMsg == [type |-> "none", target |-> NoTarget, payload |-> 0]

\* how many streams the Exit's handler is followed through
MaxServed == 2

\* OHTTPServer.keyID of the Exit (a random byte of its key pair), and another
ServerKeyID == 1
KeyIDs == {ServerKeyID, 2}
\* the suite of the Exit (KEMID, KDFID, AEADID) and any other
OwnSuite == "X25519-SHA256-AES128GCM"
Suites == {OwnSuite, "other"}
\* an encapsulated request: its header, and whether the HPKE open of it succeeds
OHTTPRequests == [keyID : KeyIDs, suite : Suites, opens : BOOLEAN]
NoRequest == [keyID |-> 0, suite |-> "none", opens |-> FALSE]
\* what the AI backend can answer with
BackendStatuses == {200, 502}
Bodies == {"body a", "body b"}

\* strings of the local proxy's requests, as sequences of characters
Str_stream == <<"s", "t", "r", "e", "a", "m">>
Str_eventStream ==
    <<"t", "e", "x", "t", "/", "e", "v", "e", "n", "t", "-", "s", "t", "r", "e", "a", "m">>
Paths ==
    { <<"/", "v", "1", "/", "c", "h", "a", "t">>,
      <<"/", "v", "1", ":", "s", "t", "r", "e", "a", "m", "G", "e", "n">>,
      <<"/", "v", "1", "/", "S", "t", "r", "e", "a", "m">>,
      <<"/", "s", "t", "r", "e", "a", "/", "m">> }
Accepts ==
    { <<>>,
      <<"a", "p", "p", "l", "i", "c", "a", "t", "i", "o", "n", "/", "j", "s", "o", "n">>,
      Str_eventStream \o <<",", " ", "*", "/", "*">>,
      <<"t", "e", "x", "t", "/", "e", "v", "e", "n", "t", "-", "s", "t", "r", "e", "a">> }

\* request bodies: no bytes, bytes that are not JSON, or a JSON value (null, an
\* array, or an object of up to MaxFields fields with distinct names, kept in
\* the order they are written in)
MaxFields == 2
FieldNames == {"stream", "Stream", "model"}
JsonValues == {"true", "false", "null", "string", "number"}
JsonFields == FieldNames \X JsonValues
JsonObjects ==
    {fs \in UNION {[1..n -> JsonFields] : n \in 0..MaxFields} :
        \A i, j \in 1..Len(fs) : fs[i][1] = fs[j][1] => i = j}
EmptyBody == [kind |-> "empty", fields |-> <<>>]
RequestBodies ==
    {[kind |-> k, fields |-> <<>>] : k \in {"empty", "invalid", "null", "array"}}
        \cup {[kind |-> "object", fields |-> fs] : fs \in JsonObjects}

\* the length fields a frame can claim (TargetLen is a uint16; the PayloadLen
\* values stay below 2^31) and the lengths of the streams that carry it
TargetLens == {0, 1, maxTargetSize, maxTargetSize + 1, 65535}
PayloadLens == {0, 1, maxPayloadSize, maxPayloadSize + 1, 2147483647}
StreamLens == {0, 3, 7, 8, 7 + maxTargetSize, 7 + maxTargetSize + maxPayloadSize, 2147483647}

\* goroutines that call methods of the one Client, and connections it may dial
NumCallers == 2
MaxDials == 3
Callers == 1..NumCallers
\* the methods that touch Client.conn; three of them go through getConnection
ClientOps == {"Connect", "SendRequest", "SendStreamRequest", "QueryExitKeys", "Close"}
\* what ReadChunk returns: bytes, io.EOF or another error
NoResult == [kind |-> "none", bytes |-> ""]

\* how many frames the stream of a StreamResponse is followed for
MaxFrames == 2
\* SSE events a backend sends
Events == {"event a", "event b"}

\* the load balancer: peers, candidate lists, and weights counted in units of
\* 1/120 (products and quotients are rounded down)
NumPeers == 2
MaxReports == 5
DrawDen == 4
healthyThreshold == 3
WeightOne == 120
Peers == 1..NumPeers
NoPeer == 0
NoWeight == -1
SelectorKinds == {"Weighted", "RoundRobin", "Random"}
\* the weights the tests set: 2.0
SetWeights == {2 * WeightOne}
\* lists of distinct peers, the empty list included
CandidateLists ==
    {s \in UNION {[1..n -> Peers] : n \in 0..NumPeers} :
        \A i \in DOMAIN s, j \in DOMAIN s : s[i] = s[j] => i = j}
\* rand.Float64() returns a number of [0, 1): here a multiple of 1/DrawDen
Draws == 0..(DrawDen - 1)

\* The Client's choice of an Exit: the public keys it may be given, and
\* crypto.PubKeyHash, a deterministic hash of the raw key bytes under which
\* different keys have different hashes.
ExitPubKeys == {"K1", "K2"}

FirstPubKey == "K1"

NoPubKey == "none"

PubKeyHash(k) == IF k = "K1" THEN 1 ELSE 2

NoSent == [type |-> "none", target |-> NoTarget, key |-> NoPubKey]

VARIABLES
    conn,         \* conn[c]: "none" (not dialled), "open", or the reason it was closed with
    pc,           \* pc[c]: position of handleExitConnection for connection c
    regMsg,       \* regMsg[c]: first message the Exit sent on the registration stream
    regStream,    \* regStream[c]: what the Relay wrote on the registration stream
    lastBeat,     \* lastBeat[c]: when the handler of c last served a Heartbeat (or registered)
    entries,      \* Registry.entries: hash -> ExitEntry
    lastReg,      \* lastReg[h]: connection of the Register call serialized last for h
    now,          \* time.Now() in seconds since the Relay started
    nextCleanup,  \* next firing of the cleanup ticker
    hpc,          \* hpc[k]: position of the Client stream handler k
    hmsg,         \* hmsg[k]: the message handler k decoded from the Client stream
    hconn,        \* hconn[k]: exitConn, the connection Lookup returned to handler k
    exitOut,      \* exitOut[k]: message handler k wrote on the Exit stream
    clientOut,    \* clientOut[k]: messages handler k wrote on the Client stream
    ctx,          \* the Relay's root context: "live" or "cancelled"
    listener,     \* s.listener: "open" or "closed"
    wg,           \* s.wg: the counter of the WaitGroup of connection handlers
    startPc,      \* position of QUICServer.Start's accept loop
    accepted,     \* the connection listener.Accept returned, before its handler is spawned
    stopPc,       \* position of RelayNode.Stop / QUICServer.Stop
    cpc,          \* position of handleClientConnection on the Client connection
    cconn,        \* the Client connection: "none", "open" or the reason it closed with
    exitIn,       \* exitIn[k]: messages handler k decoded from the Exit stream
    tpc,          \* position of the Exit tunnel (TunnelClient.Start, then reconnectLoop)
    tphase,       \* "start" in Start's connect loop, "reconnect" in reconnectLoop
    backoff,      \* the local variable backoff, in seconds
    nwait,        \* backoff waits completed since the last registration (saturating)
    lastWait,     \* length of the backoff wait completed last, in seconds
    tctx,         \* t.ctx: "live", "cancelled" once Stop has called t.cancel()
    tconn,        \* t.conn: "nil", "open" or "closed"
    dconn,        \* the connection connectAndRegister is dialling: "none", "dialling", "open"
    relayUp,      \* whether a Relay is reachable
    outages,      \* how many times the Relay became unreachable or the connection was lost
    acks,         \* RegisterAcks received (saturating)
    ready,        \* the channel t.ready: "open" or "closed"
    readyFires,   \* how many times close(t.ready) ran
    loops,        \* heartbeatLoop and acceptStreams: "none", "running" or "ended"
    sentAfterStop,   \* a Register was written after Stop was called
    loopsAfterStop,  \* the loops were started after Stop was called
    spc,          \* position of the Exit's handler of one StreamRequest
    events,       \* SSE events left in the backend response body
    bodyEnd,      \* how the backend body ends: "eof", "error", or "unterminated" ("none": no body)
    sout,         \* messages the Exit wrote on the stream toward the Relay
    sbroken,      \* a write on that stream has failed
    xpc,          \* position of the Exit's handleIncomingStream on one stream
    xmsg,         \* the message it decoded from the stream
    xreq,         \* the OHTTP request in the payload of that message
    xstatus,      \* the status the AI backend answered with (0: it did not answer)
    xbody,        \* the body the AI backend answered with
    xout,         \* the message the handler wrote on the stream
    xserved,      \* streams handled so far (saturating)
    xrefused,     \* a request was refused for its key or suite on an earlier stream
    dbody,        \* the body of the request the local proxy handles
    dpath,        \* r.URL.Path of that request
    daccept,      \* its Accept header
    dresult,      \* what detectStreaming made of it: "streaming" or "unary"
    rpc,          \* position of protocol.Decode on one frame
    rtlen,        \* the TargetLen field of the frame
    rplen,        \* the PayloadLen field of the frame
    ravail,       \* how many bytes the reader delivers before it ends
    rread,        \* bytes Decode has read from the reader
    ralloc,       \* size of the largest buffer Decode has allocated
    mu,           \* Client.connMu: 0 when free, else the caller that holds it
    kconn,        \* Client.conn: 0 for nil, else the connection it refers to
    qconn,        \* qconn[i]: the i-th connection dialled: "none", "open" or "closed"
    kpc,          \* kpc[p]: position of caller p in a method of the Client
    kop,          \* kop[p]: the method caller p is in
    kgot,         \* kgot[p]: the connection getConnection returned to caller p
    dials,        \* connections dialled so far
    zpc,          \* position of SendStreamRequest, then of the StreamResponse
    zwrite,       \* the write side of the Client's stream: "none", "open", "closed"
    zsent,        \* the message written on the stream
    zin,          \* the frames the stream still holds for the Client
    zres,         \* what the last ReadChunk returned
    lbKind,       \* which Selector was constructed: "none", "Weighted", "RoundRobin", "Random"
    lbWeights,    \* WeightedSelector.weights: peer -> weight (NoWeight: no entry)
    lbFailures,   \* the selector's failures map: peer -> count (0: no entry)
    lbIndex,      \* RoundRobinSelector.index
    lbCands,      \* the candidates of the last call of Select
    lbPicked,     \* what that call returned (NoPeer: ErrNoAvailableNodes)
    lbSelects,    \* calls of Select so far, modulo 2
    lbReports,    \* calls of ReportSuccess, ReportFailure and SetWeight so far
    exitPubKeyHash, \* Client: c.exitPubKeyHash
    ohttpClient,  \* Client: the public key of c.ohttpClient
    setPc,        \* SetExit: "idle", or "client" between its two assignments
    setKey,       \* SetExit: the publicKey it was called with
    sendPc,       \* SendRequest / SendStreamRequest: "idle", "encap", "write", "sent"
    sendType,     \* the message type the running call sends
    sendKey,      \* the public key EncapsulateRequest sealed the payload to
    sendMsg       \* the message written to the stream: type, target, key of the payload

vars == <<ctx, listener, wg, startPc, accepted, stopPc, cpc, cconn,
         conn, pc, regMsg, regStream, lastBeat, entries, lastReg, now, nextCleanup,
          hpc, hmsg, hconn, exitOut, clientOut, exitIn,
          tpc, tphase, backoff, nwait, lastWait, tctx, tconn, dconn, relayUp, outages, acks, ready,
          readyFires, loops, sentAfterStop, loopsAfterStop, spc, events, bodyEnd, sout, sbroken,
          xpc, xmsg, xreq, xstatus, xbody, xout, xserved, xrefused,
          dbody, dpath, daccept, dresult,
          rpc, rtlen, rplen, ravail, rread, ralloc,
          mu, kconn, qconn, kpc, kop, kgot, dials, zpc, zwrite, zsent, zin, zres,
          lbKind, lbWeights, lbFailures, lbIndex, lbCands, lbPicked, lbSelects, lbReports,
          exitPubKeyHash, ohttpClient, setPc, setKey, sendPc, sendType, sendKey, sendMsg>>

exitVars == <<conn, pc, regMsg, regStream, lastBeat>>
handlerVars == <<hpc, hmsg, hconn, exitOut, clientOut>>
clockVars == <<now, nextCleanup>>
serverRest == <<ctx, listener, startPc, accepted, stopPc, cpc, cconn>>
serverVars == <<wg, serverRest>>
tunnelVars == <<tpc, tphase, backoff, nwait, lastWait, tctx, tconn, dconn, relayUp, outages, acks,
                ready, readyFires, loops, sentAfterStop, loopsAfterStop>>
streamVars == <<spc, events, bodyEnd, sout, sbroken>>
exitReqVars == <<xpc, xmsg, xreq, xstatus, xbody, xout, xserved, xrefused>>
detectVars == <<dbody, dpath, daccept, dresult>>
decodeVars == <<rpc, rtlen, rplen, ravail, rread, ralloc>>
connVars == <<mu, kconn, qconn, kpc, kop, kgot, dials>>
strmVars == <<zpc, zwrite, zsent, zin, zres>>
selVars == <<lbKind, lbWeights, lbFailures, lbIndex, lbCands, lbPicked, lbSelects, lbReports>>
sendVars == <<exitPubKeyHash, ohttpClient, setPc, setKey, sendPc, sendType, sendKey, sendMsg>>
lastVars == <<selVars, sendVars>>
lateVars == <<exitReqVars, detectVars, decodeVars, connVars, strmVars, lastVars>>
sideVars == <<exitIn, tunnelVars, streamVars, lateVars>>
relayVars == <<exitVars, entries, lastReg, clockVars, handlerVars, serverVars>>
earlyVars == <<relayVars, exitIn, tunnelVars, streamVars, lastVars>>
baseVars == <<relayVars, exitIn, tunnelVars, streamVars,
             exitReqVars, detectVars, decodeVars, connVars, strmVars>>

(***************************************************************************)
(* QUIC connections.                                                       *)
(***************************************************************************)
Alive(cs, c) == cs[c] = "open"

\* conn.CloseWithError: the first close wins, closing a closed connection is a no-op
CloseWithError(cs, C, reason) ==
    [c \in Conns |-> IF c \in C /\ cs[c] = "open" THEN reason ELSE cs[c]]

(***************************************************************************)
(* The registry (internal/relay/registry.go).                              *)
(***************************************************************************)
ExitEntry(h, c, kc, t) ==
    [pubKeyHash |-> h, conn |-> c, keyConfig |-> kc,
     registeredAt |-> t, lastHeartbeat |-> t]

\* the connections Register closes: the old entry's
RegisterCloses(es, h) == IF h \in DOMAIN es THEN {es[h].conn} ELSE {}

\* a Register that leaves an existing entry alone (the first registration wins)
RegisterFirstWins(es, h, c, kc, t) ==
    IF h \in DOMAIN es
    THEN es
    ELSE [x \in DOMAIN es \cup {h} |-> IF x = h THEN ExitEntry(h, c, kc, t) ELSE es[x]]

\* a Register that keeps the connection of the entry it replaces
RegisterKeepsOldConn(es, h, c, kc, t) ==
    [x \in DOMAIN es \cup {h} |->
        IF x = h
        THEN ExitEntry(h, IF h \in DOMAIN es THEN es[h].conn ELSE c, kc, t)
        ELSE es[x]]

Register(es, h, c, kc, t) ==
    [x \in DOMAIN es \cup {h} |-> IF x = h THEN ExitEntry(h, c, kc, t) ELSE es[x]]

LookupOk(es, h) == h \in DOMAIN es

Lookup(es, h) == IF h \in DOMAIN es THEN es[h].conn ELSE NoConn

Remove(es, h) == [x \in DOMAIN es \ {h} |-> es[x]]

RemoveIfMatchResult(es, h, c) == h \in DOMAIN es /\ es[h].conn = c

\* a RemoveIfMatch that does not compare the connection
RemoveIfMatchAnyConn(es, h, c) == [x \in DOMAIN es \ {h} |-> es[x]]

RemoveIfMatch(es, h, c) ==
    IF h \in DOMAIN es /\ es[h].conn = c
    THEN [x \in DOMAIN es \ {h} |-> es[x]]
    ELSE es

UpdateHeartbeatCreatesEntry(es, h, t) ==
    IF h \in DOMAIN es
    THEN [es EXCEPT ![h].lastHeartbeat = t]
    ELSE [x \in DOMAIN es \cup {h} |->
             IF x = h THEN ExitEntry(h, NoConn, EmptyKeyConfig, t) ELSE es[x]]

UpdateHeartbeat(es, h, t) ==
    IF h \in DOMAIN es
    THEN [es EXCEPT ![h].lastHeartbeat = t]
    ELSE es

ExpiredSinceRegistration(es, timeout, t) ==
    {h \in DOMAIN es : t - es[h].registeredAt > timeout}

Expired(es, timeout, t) == {h \in DOMAIN es : t - es[h].lastHeartbeat > timeout}

\* a cleanup that closes the connection of every entry
cleanupClosesEvery(es, timeout, t) == {es[h].conn : h \in DOMAIN es}

cleanupCloses(es, timeout, t) == {es[h].conn : h \in Expired(es, timeout, t)}

cleanup(es, timeout, t) == [x \in DOMAIN es \ Expired(es, timeout, t) |-> es[x]]

Count(es) == Cardinality(DOMAIN es)

ListExitKeys(es) ==
    {[pub_key_hash |-> h, key_config |-> es[h].keyConfig] :
        h \in {x \in DOMAIN es : es[x].keyConfig # EmptyKeyConfig}}

(***************************************************************************)
(* Initial state: NewRegistry, no connection accepted, no stream open.     *)
(***************************************************************************)
Init ==
    /\ conn = [c \in Conns |-> "none"]
    /\ pc = [c \in Conns |-> "idle"]
    /\ regMsg = [c \in Conns |-> NoMsg]
    /\ regStream = [c \in Conns |-> "none"]
    /\ lastBeat = [c \in Conns |-> 0]
    /\ entries = <<>>
    /\ lastReg = [h \in Hashes |-> NoConn]
    /\ now = 0
    /\ nextCleanup = TTL \div 2
    /\ hpc = [k \in Handlers |-> "idle"]
    /\ hmsg = [k \in Handlers |-> NoMsg]
    /\ hconn = [k \in Handlers |-> NoConn]
    /\ exitOut = [k \in Handlers |-> NoMsg]
    /\ clientOut = [k \in Handlers |-> <<>>]
    /\ ctx = "live"
    /\ listener = "open"
    /\ wg = 0
    /\ startPc = "accept"
    /\ accepted = NoConn
    /\ stopPc = "idle"
    /\ cpc = "none"
    /\ cconn = "none"
    /\ exitIn = [k \in Handlers |-> <<>>]
    /\ tpc = "check"
    /\ tphase = "start"
    /\ backoff = StartBackoff
    /\ nwait = 0
    /\ lastWait = 0
    /\ tctx = "live"
    /\ tconn = "nil"
    /\ dconn = "none"
    /\ relayUp = FALSE
    /\ outages = 0
    /\ acks = 0
    /\ ready = "open"
    /\ readyFires = 0
    /\ loops = "none"
    /\ sentAfterStop = FALSE
    /\ loopsAfterStop = FALSE
    /\ spc = "idle"
    /\ events = 0
    /\ bodyEnd = "none"
    /\ sout = <<>>
    /\ sbroken = FALSE
    /\ xpc = "idle"
    /\ xmsg = "none"
    /\ xreq = NoRequest
    /\ xstatus = 0
    /\ xbody = "none"
    /\ xout = NoMsg
    /\ xserved = 0
    /\ xrefused = FALSE
    /\ dbody = EmptyBody
    /\ dpath = <<>>
    /\ daccept = <<>>
    /\ dresult = "none"
    /\ rpc = "idle"
    /\ rtlen = 0
    /\ rplen = 0
    /\ ravail = 0
    /\ rread = 0
    /\ ralloc = 0
    /\ mu = 0
    /\ kconn = 0
    /\ qconn = [i \in 1..MaxDials |-> "none"]
    /\ kpc = [p \in Callers |-> "idle"]
    /\ kop = [p \in Callers |-> "none"]
    /\ kgot = [p \in Callers |-> 0]
    /\ dials = 0
    /\ zpc = "idle"
    /\ zwrite = "none"
    /\ zsent = "none"
    /\ zin = <<>>
    /\ zres = NoResult
    /\ lbKind = "none"
    /\ lbWeights = [p \in Peers |-> NoWeight]
    /\ lbFailures = [p \in Peers |-> 0]
    /\ lbIndex = 0
    /\ lbCands = <<>>
    /\ lbPicked = NoPeer
    /\ lbSelects = 0
    /\ lbReports = 0
    /\ exitPubKeyHash = PubKeyHash(FirstPubKey)
    /\ ohttpClient = FirstPubKey
    /\ setPc = "idle"
    /\ setKey = NoPubKey
    /\ sendPc = "idle"
    /\ sendType = "none"
    /\ sendKey = NoPubKey
    /\ sendMsg = NoSent

(***************************************************************************)
(* handleExitConnection (Relay side of an Exit's reverse tunnel).          *)
(***************************************************************************)
RegisterMsgs ==
    {[type |-> "Register", target |-> h, payload |-> kc] :
        h \in Hashes \cup {NoTarget}, kc \in KeyConfigs}

\* what the Relay finds first on the registration stream: a Register, a message
\* of another type, or bytes protocol.Decode rejects (truncated or over its limits)
FirstMsgs ==
    RegisterMsgs
    \cup {[type |-> t, target |-> NoTarget, payload |-> 0] : t \in {"Heartbeat", "Malformed"}}

\* An Exit dials the Relay with ALPN "tokengo-exit" and sends its first message;
\* the Relay accepts the connection, the registration stream and decodes m.
ExitConnect(c, m) ==
    /\ pc[c] = "idle"
    /\ conn[c] = "none"
    /\ startPc = "accept"
    /\ listener = "open"
    /\ conn' = [conn EXCEPT ![c] = "open"]
    /\ regMsg' = [regMsg EXCEPT ![c] = m]
    /\ pc' = [pc EXCEPT ![c] = "regRead"]
    /\ wg' = wg + 1
    /\ UNCHANGED <<regStream, lastBeat, entries, lastReg, clockVars, handlerVars, serverRest, sideVars>>

\* a handler that goes on to register although writing RegisterAck failed
HandleRegisterIgnoresAckFailure(c) ==
    /\ pc[c] = "regRead"
    /\ regMsg[c].type = "Register"
    /\ regMsg[c].target # NoTarget
    /\ regStream' = [regStream EXCEPT ![c] = IF Alive(conn, c) THEN "RegisterAck" ELSE @]
    /\ pc' = [pc EXCEPT ![c] = "acked"]
    /\ wg' = IF pc'[c] = "done" THEN wg - 1 ELSE wg
    /\ UNCHANGED <<conn, regMsg, lastBeat, entries, lastReg, clockVars, handlerVars, serverRest, sideVars>>

\* a handler that acknowledges whatever it decoded
HandleRegisterAcceptsAnyMessage(c) ==
    /\ pc[c] = "regRead"
    /\ regStream' = [regStream EXCEPT ![c] = IF Alive(conn, c) THEN "RegisterAck" ELSE @]
    /\ pc' = [pc EXCEPT ![c] = IF Alive(conn, c) THEN "acked" ELSE "done"]
    /\ wg' = IF pc'[c] = "done" THEN wg - 1 ELSE wg
    /\ UNCHANGED <<conn, regMsg, lastBeat, entries, lastReg, clockVars, handlerVars, serverRest, sideVars>>

\* Steps 2-4: validate the Register message and write RegisterAck.
HandleRegister(c) ==
    /\ pc[c] = "regRead"
    /\ IF ~Alive(conn, c)
       THEN \* the read or the write fails on the closed connection
            /\ pc' = [pc EXCEPT ![c] = "done"]
            /\ UNCHANGED <<conn, regStream>>
       ELSE IF regMsg[c].type = "Malformed"
       THEN \* protocol.Decode fails: nothing is written
            /\ conn' = CloseWithError(conn, {c}, "read register message failed")
            /\ pc' = [pc EXCEPT ![c] = "done"]
            /\ UNCHANGED regStream
       ELSE IF regMsg[c].type # "Register"
       THEN /\ regStream' = [regStream EXCEPT ![c] = "Error: expected register message"]
            /\ conn' = CloseWithError(conn, {c}, "unexpected message type")
            /\ pc' = [pc EXCEPT ![c] = "done"]
       ELSE IF regMsg[c].target = NoTarget
       THEN /\ regStream' = [regStream EXCEPT ![c] = "Error: missing pubKeyHash"]
            /\ conn' = CloseWithError(conn, {c}, "missing pubKeyHash")
            /\ pc' = [pc EXCEPT ![c] = "done"]
       ELSE /\ regStream' = [regStream EXCEPT ![c] = "RegisterAck"]
            /\ pc' = [pc EXCEPT ![c] = "acked"]
            /\ UNCHANGED conn
    /\ wg' = IF pc'[c] = "done" THEN wg - 1 ELSE wg
    /\ UNCHANGED <<regMsg, lastBeat, entries, lastReg, clockVars, handlerVars, serverRest, sideVars>>

\* Step 5: s.registry.Register(pubKeyHash, conn, msg.Payload).
RegistryRegister(c) ==
    /\ pc[c] = "acked"
    /\ LET h == regMsg[c].target IN
       /\ conn' = CloseWithError(conn, RegisterCloses(entries, h), "replaced by new connection")
       /\ entries' = Register(entries, h, c, regMsg[c].payload, now)
       /\ lastReg' = [lastReg EXCEPT ![h] = c]
    /\ lastBeat' = [lastBeat EXCEPT ![c] = now]
    /\ pc' = [pc EXCEPT ![c] = "serving"]
    /\ UNCHANGED <<regMsg, regStream, clockVars, handlerVars, serverVars, sideVars>>

\* Step 6: the heartbeat loop accepts a stream and decodes one message of type t.
\* A Heartbeat is handled next; any other type is logged and the stream closed.
AcceptHeartbeatStream(c, t) ==
    /\ pc[c] = "serving"
    /\ Alive(conn, c)
    /\ pc' = [pc EXCEPT ![c] = IF t = "Heartbeat" THEN "hbRead" ELSE "serving"]
    /\ UNCHANGED <<conn, regMsg, regStream, lastBeat, entries, lastReg, clockVars, handlerVars, serverVars, sideVars>>

\* Heartbeat: s.registry.UpdateHeartbeat(pubKeyHash).
HandleHeartbeat(c) ==
    /\ pc[c] = "hbRead"
    /\ entries' = UpdateHeartbeat(entries, regMsg[c].target, now)
    /\ lastBeat' = [lastBeat EXCEPT ![c] = now]
    /\ pc' = [pc EXCEPT ![c] = "hbAck"]
    /\ UNCHANGED <<conn, regMsg, regStream, lastReg, clockVars, handlerVars, serverVars, sideVars>>

\* Heartbeat: write HeartbeatAck (the result is ignored) and close the stream.
WriteHeartbeatAck(c) ==
    /\ pc[c] = "hbAck"
    /\ pc' = [pc EXCEPT ![c] = "serving"]
    /\ UNCHANGED <<conn, regMsg, regStream, lastBeat, entries, lastReg, clockVars, handlerVars, serverVars, sideVars>>

\* a teardown that closes the connection and leaves the registry alone
TeardownKeepsEntry(c) ==
    /\ pc[c] = "serving"
    /\ ~Alive(conn, c) \/ ctx = "cancelled"
    /\ conn' = CloseWithError(conn, {c}, "exit connection closed")
    /\ pc' = [pc EXCEPT ![c] = "done"]
    /\ wg' = wg - 1
    /\ UNCHANGED <<regMsg, regStream, lastBeat, entries, lastReg, clockVars, handlerVars, serverRest, sideVars>>

\* AcceptStream fails on the closed connection or the cancelled context: the
\* deferred teardown runs and the handler returns (s.wg.Done).
Teardown(c) ==
    /\ pc[c] = "serving"
    /\ ~Alive(conn, c) \/ ctx = "cancelled"
    /\ entries' = Remove(entries, regMsg[c].target)
    /\ conn' = CloseWithError(conn, {c}, "exit connection closed")
    /\ pc' = [pc EXCEPT ![c] = "done"]
    /\ wg' = wg - 1
    /\ UNCHANGED <<regMsg, regStream, lastBeat, lastReg, clockVars, handlerVars, serverRest, sideVars>>

\* The Exit (or the network, or the idle timeout) ends the connection.
ExitClose(c) ==
    /\ Alive(conn, c)
    /\ conn' = [conn EXCEPT ![c] = "closed by peer"]
    /\ UNCHANGED <<pc, regMsg, regStream, lastBeat, entries, lastReg, clockVars, handlerVars, serverVars, sideVars>>

(***************************************************************************)
(* Time and the cleanup ticker (StartCleanup, interval timeout / 2).       *)
(***************************************************************************)
\* a handler of an Exit connection has a message or a closed connection to deal
\* with; handlers run to completion between two readings of the clock
Busy ==
    \E c \in Conns :
        \/ pc[c] \in {"regRead", "acked", "hbRead", "hbAck"}
        \/ pc[c] = "serving" /\ ~Alive(conn, c)

Tick ==
    /\ now + ClockStep <= MaxTime
    /\ now < nextCleanup
    /\ ~Busy
    /\ now' = now + ClockStep
    /\ UNCHANGED <<exitVars, entries, lastReg, nextCleanup, handlerVars, serverVars, sideVars>>

CleanupTick ==
    /\ now >= nextCleanup
    /\ conn' = CloseWithError(conn, cleanupCloses(entries, TTL, now), "heartbeat timeout")
    /\ entries' = cleanup(entries, TTL, now)
    /\ nextCleanup' = nextCleanup + TTL \div 2
    /\ UNCHANGED <<pc, regMsg, regStream, lastBeat, lastReg, now, handlerVars, serverVars, sideVars>>

(***************************************************************************)
(* handleStream: one handler per Client stream.                            *)
(***************************************************************************)
ClientMsgs ==
    {[type |-> t, target |-> h, payload |-> 1] :
        t \in {"Request", "StreamRequest"}, h \in Hashes \cup {NoTarget}}
    \cup {[type |-> t, target |-> NoTarget, payload |-> 0] : t \in {"QueryExitKeys", "Heartbeat"}}

\* a response that lists no key whatever it is given (never taken)
ExitKeysResponseWithoutKeys(keys) ==
    [type |-> "ExitKeysResponse", target |-> NoTarget, payload |-> {}]

\* protocol.NewExitKeysResponseMessage: the payload is the JSON array of the
\* entries, one object {pub_key_hash, key_config} for each
NewExitKeysResponseMessage(keys) ==
    [type |-> "ExitKeysResponse", target |-> NoTarget, payload |-> keys]

\* an Error message that drops the text it is given (never taken)
ErrorWithoutText(text) == [type |-> "Error", target |-> NoTarget, payload |-> "error"]

\* protocol.NewErrorMessage
Error(text) == [type |-> "Error", target |-> NoTarget, payload |-> text]

\* handleStream decodes m and dispatches by type; for Request and StreamRequest
\* handleForwardRequest / handleStreamForwardRequest run up to registry.Lookup.
ClientRequest(k, m) ==
    /\ hpc[k] \in {"idle", "done", "decode"}
    /\ hmsg' = [hmsg EXCEPT ![k] = m]
    /\ exitOut' = [exitOut EXCEPT ![k] = NoMsg]
    /\ IF m.type \in {"Request", "StreamRequest"}
       THEN IF m.target = NoTarget
            THEN /\ clientOut' = [clientOut EXCEPT ![k] = <<Error("missing target address")>>]
                 /\ hconn' = [hconn EXCEPT ![k] = NoConn]
                 /\ hpc' = [hpc EXCEPT ![k] = "done"]
            ELSE IF ~LookupOk(entries, m.target)
            THEN /\ clientOut' = [clientOut EXCEPT ![k] = <<Error("exit not found")>>]
                 /\ hconn' = [hconn EXCEPT ![k] = NoConn]
                 /\ hpc' = [hpc EXCEPT ![k] = "done"]
            ELSE /\ clientOut' = [clientOut EXCEPT ![k] = <<>>]
                 /\ hconn' = [hconn EXCEPT ![k] = Lookup(entries, m.target)]
                 /\ hpc' = [hpc EXCEPT ![k] = "open"]
       ELSE IF m.type = "QueryExitKeys"
       THEN /\ clientOut' = [clientOut EXCEPT ![k] =
                    <<NewExitKeysResponseMessage(ListExitKeys(entries))>>]
            /\ hconn' = [hconn EXCEPT ![k] = NoConn]
            /\ hpc' = [hpc EXCEPT ![k] = "done"]
       ELSE /\ clientOut' = [clientOut EXCEPT ![k] = <<Error("invalid message type")>>]
            /\ hconn' = [hconn EXCEPT ![k] = NoConn]
            /\ hpc' = [hpc EXCEPT ![k] = "done"]
    /\ exitIn' = [exitIn EXCEPT ![k] = <<>>]
    /\ UNCHANGED <<exitVars, entries, lastReg, clockVars, serverVars, tunnelVars, streamVars, lateVars>>

\* exitConn.OpenStreamSync(ctx) succeeds: only on a live connection.
OpenStream(k) ==
    /\ hpc[k] = "open"
    /\ Alive(conn, hconn[k])
    /\ hpc' = [hpc EXCEPT ![k] = "write"]
    /\ UNCHANGED <<exitVars, entries, lastReg, clockVars, hmsg, hconn, exitOut, clientOut, serverVars, sideVars>>

\* exitConn.OpenStreamSync(ctx) fails: the connection is closed, or the 30 s
\* context expired on a live connection (the peer grants no stream).
OpenStreamFailsThenRemove(k) ==
    /\ hpc[k] = "open"
    /\ entries' = Remove(entries, hmsg[k].target)
    /\ clientOut' = [clientOut EXCEPT ![k] = <<Error("exit connection failed")>>]
    /\ hpc' = [hpc EXCEPT ![k] = "done"]
    /\ UNCHANGED <<exitVars, lastReg, clockVars, hmsg, hconn, exitOut, serverVars, sideVars>>

OpenStreamFails(k) ==
    /\ hpc[k] = "open"
    /\ entries' = RemoveIfMatch(entries, hmsg[k].target, hconn[k])
    /\ clientOut' = [clientOut EXCEPT ![k] = <<Error("exit connection failed")>>]
    /\ hpc' = [hpc EXCEPT ![k] = "done"]
    /\ UNCHANGED <<exitVars, lastReg, clockVars, hmsg, hconn, exitOut, serverVars, sideVars>>

\* a write that forwards the Client's message with its Target left in place
WriteRequestKeepsTarget(k) ==
    /\ hpc[k] = "write"
    /\ Alive(conn, hconn[k])
    /\ exitOut' = [exitOut EXCEPT ![k] = hmsg[k]]
    /\ hpc' = [hpc EXCEPT ![k] = "await"]
    /\ UNCHANGED <<exitVars, entries, lastReg, clockVars, hmsg, hconn, clientOut, serverVars, sideVars>>

\* exitStream.Write(reqMsg.Encode()) with Target empty and the Client's payload.
WriteRequest(k) ==
    /\ hpc[k] = "write"
    /\ IF Alive(conn, hconn[k])
       THEN /\ exitOut' = [exitOut EXCEPT ![k] =
                    [type |-> hmsg[k].type, target |-> NoTarget, payload |-> hmsg[k].payload]]
            /\ hpc' = [hpc EXCEPT ![k] = "await"]
            /\ UNCHANGED clientOut
       ELSE /\ clientOut' = [clientOut EXCEPT ![k] = <<Error("write to exit failed")>>]
            /\ hpc' = [hpc EXCEPT ![k] = "done"]
            /\ UNCHANGED exitOut
    /\ UNCHANGED <<exitVars, entries, lastReg, clockVars, hmsg, hconn, serverVars, sideVars>>

Msg(t) == [type |-> t, target |-> NoTarget, payload |-> "reply"]

\* handleForwardRequest: protocol.Decode(exitStream) returns the Exit's reply of
\* type t, which is written back to the Client stream as it is.
ForwardResponse(k, t) ==
    /\ hpc[k] = "await"
    /\ hmsg[k].type = "Request"
    /\ clientOut' = [clientOut EXCEPT ![k] = <<Msg(t)>>]
    /\ hpc' = [hpc EXCEPT ![k] = "done"]
    /\ UNCHANGED <<exitVars, entries, lastReg, clockVars, hmsg, hconn, exitOut, serverVars, sideVars>>

\* handleForwardRequest: protocol.Decode(exitStream) fails.
ReadResponseFails(k) ==
    /\ hpc[k] = "await"
    /\ hmsg[k].type = "Request"
    /\ clientOut' = [clientOut EXCEPT ![k] = <<Error("read exit response failed")>>]
    /\ hpc' = [hpc EXCEPT ![k] = "done"]
    /\ UNCHANGED <<exitVars, entries, lastReg, clockVars, hmsg, hconn, exitOut, serverVars, sideVars>>

StreamChunks(out) == Len(SelectSeq(out, LAMBDA m : m.type = "StreamChunk"))

\* The wire format [Type(1)] [TargetLen(2)] [Target] [PayloadLen(4)] [Payload]:
\* a frame carries the two length fields next to the bytes that follow them.
\* Lengths are counted in symbols: an empty target or payload has length 0.
TargetLen(target) == IF target = NoTarget THEN 0 ELSE 1
PayloadLen(payload) == IF payload = "" THEN 0 ELSE 1

\* Message.Encode
Encode(m) ==
    [type |-> m.type, tlen |-> TargetLen(m.target), target |-> m.target,
     plen |-> PayloadLen(m.payload), payload |-> m.payload]

\* protocol.Decode fails on a target longer than 1 KB, a payload longer than
\* 16 MB, and when the stream ends before the announced bytes were read
DecodeOk(f) ==
    /\ f.tlen <= maxTargetSize
    /\ f.tlen = TargetLen(f.target)
    /\ f.plen <= maxPayloadSize
    /\ f.plen = PayloadLen(f.payload)

\* protocol.Decode on a frame it accepts
Decode(f) == [type |-> f.type, target |-> f.target, payload |-> f.payload]

\* what an Exit may write on the stream of a StreamRequest: the messages of
\* writeStreamChunks and handleIncomingStream, ...
StreamReplies == {Encode(Msg(t)) : t \in {"StreamChunk", "StreamEnd", "Error"}}

\* ... any other well-formed message, and bytes that do not decode
ExitFrames ==
    StreamReplies
    \cup {Encode([type |-> "StreamEnd", target |-> NoTarget, payload |-> ""]),
          Encode([type |-> "Response", target |-> 1, payload |-> "reply"])}
    \cup {[type |-> "StreamChunk", tlen |-> maxTargetSize + 1, target |-> 1,
           plen |-> 1, payload |-> "reply"],
          [type |-> "StreamChunk", tlen |-> 0, target |-> NoTarget,
           plen |-> 1, payload |-> ""]}

\* what an Exit may write on the stream of a Request: the Response or the Error
\* of handleIncomingStream, and the frames of ExitFrames
UnaryReplies == {Encode(Msg(t)) : t \in {"Response", "Error"}} \cup ExitFrames

\* handleForwardRequest from protocol.Decode(exitStream) on: frame f decodes to
\* respMsg, and respMsg.Encode() is written to the Client stream (written says
\* whether that write succeeded; a failure is only logged).
ForwardReply(k, f, written) ==
    /\ hpc[k] = "await"
    /\ hmsg[k].type = "Request"
    /\ DecodeOk(f)
    /\ exitIn' = [exitIn EXCEPT ![k] = <<f>>]
    /\ clientOut' = [clientOut EXCEPT ![k] = IF written THEN <<Decode(f)>> ELSE <<>>]
    /\ hpc' = [hpc EXCEPT ![k] = "done"]
    /\ UNCHANGED <<exitVars, entries, lastReg, clockVars, hmsg, hconn, exitOut, serverVars,
                   tunnelVars, streamVars, lateVars>>

\* a pump that forwards its own StreamChunk in place of what it read, and goes
\* on after a terminator (never taken)
ForwardChunkRewrites(k, f, written) ==
    /\ hpc[k] = "await"
    /\ hmsg[k].type = "StreamRequest"
    /\ DecodeOk(f)
    /\ Len(exitIn[k]) < MaxChunks + 1
    /\ exitIn' = [exitIn EXCEPT ![k] = Append(@, f)]
    /\ clientOut' = [clientOut EXCEPT ![k] = Append(@, Msg("StreamChunk"))]
    /\ UNCHANGED <<exitVars, entries, lastReg, clockVars, hpc, hmsg, hconn, exitOut, serverVars,
                   tunnelVars, streamVars, lateVars>>

\* handleStreamForwardRequest: one round of the pump. protocol.Decode(exitStream)
\* returns the message of frame f, chunkMsg.Encode() is written to the Client
\* stream (written says whether that write succeeded); a failed write, a
\* StreamEnd and an Error end the pump.
ForwardChunk(k, f, written) ==
    /\ hpc[k] = "await"
    /\ hmsg[k].type = "StreamRequest"
    /\ DecodeOk(f)
    /\ f.type \notin {"StreamEnd", "Error"} => Len(exitIn[k]) < MaxChunks
    /\ exitIn' = [exitIn EXCEPT ![k] = Append(@, f)]
    /\ clientOut' = [clientOut EXCEPT ![k] = IF written THEN Append(@, Decode(f)) ELSE @]
    /\ hpc' = [hpc EXCEPT ![k] =
                  IF ~written \/ Decode(f).type \in {"StreamEnd", "Error"} THEN "done" ELSE "await"]
    /\ UNCHANGED <<exitVars, entries, lastReg, clockVars, hmsg, hconn, exitOut, serverVars,
                   tunnelVars, streamVars, lateVars>>

\* handleStreamForwardRequest: protocol.Decode(exitStream) fails; the pump returns.
ReadChunkFails(k) ==
    /\ hpc[k] = "await"
    /\ hmsg[k].type = "StreamRequest"
    /\ hpc' = [hpc EXCEPT ![k] = "done"]
    /\ UNCHANGED <<exitVars, entries, lastReg, clockVars, hmsg, hconn, exitOut, clientOut, serverVars, sideVars>>

(***************************************************************************)
(* QUICServer.Start's accept loop, handleClientConnection, and Stop.       *)
(***************************************************************************)
\* Start: listener.Accept(ctx) returns a connection: an Exit tunnel c \in Conns or
\* the Client connection. Its handler is not spawned yet.
AcceptConn(c) ==
    /\ startPc = "accept"
    /\ listener = "open"
    /\ ctx = "live"
    /\ IF c = ClientConn
       THEN /\ cconn = "none"
            /\ cconn' = "open"
            /\ UNCHANGED conn
       ELSE /\ conn[c] = "none"
            /\ conn' = [conn EXCEPT ![c] = "open"]
            /\ UNCHANGED cconn
    /\ accepted' = c
    /\ startPc' = "spawn"
    /\ UNCHANGED <<pc, regMsg, regStream, lastBeat, entries, lastReg, clockVars, handlerVars,
                   ctx, listener, wg, stopPc, cpc, sideVars>>

\* Start: s.wg.Add(1); go handleConnection(ctx, conn). The handler of an Exit
\* tunnel decodes the first message m; the handler of the Client connection
\* starts accepting streams.
SpawnHandler(m) ==
    /\ startPc = "spawn"
    /\ wg' = wg + 1
    /\ IF accepted = ClientConn
       THEN /\ cpc' = "accepting"
            /\ UNCHANGED <<pc, regMsg>>
       ELSE /\ pc' = [pc EXCEPT ![accepted] = "regRead"]
            /\ regMsg' = [regMsg EXCEPT ![accepted] = m]
            /\ UNCHANGED cpc
    /\ accepted' = NoConn
    /\ startPc' = "accept"
    /\ UNCHANGED <<conn, regStream, lastBeat, entries, lastReg, clockVars, handlerVars,
                   ctx, listener, stopPc, cconn, sideVars>>

\* Start: ctx.Done() is seen in the select or after Accept failed: s.wg.Wait().
StartSeesDone ==
    /\ startPc = "accept"
    /\ ctx = "cancelled"
    /\ startPc' = "wait"
    /\ UNCHANGED <<exitVars, entries, lastReg, clockVars, handlerVars,
                   ctx, listener, wg, accepted, stopPc, cpc, cconn, sideVars>>

\* Start: s.wg.Wait() returns when the counter is zero.
StartReturns ==
    /\ startPc = "wait"
    /\ wg = 0
    /\ startPc' = "returned"
    /\ UNCHANGED <<exitVars, entries, lastReg, clockVars, handlerVars,
                   ctx, listener, wg, accepted, stopPc, cpc, cconn, sideVars>>

\* RelayNode.Stop: r.cancel(), then QUICServer.Stop is entered.
StopCancel ==
    /\ stopPc = "idle"
    /\ ctx' = "cancelled"
    /\ stopPc' = "close"
    /\ UNCHANGED <<exitVars, entries, lastReg, clockVars, handlerVars,
                   listener, wg, startPc, accepted, cpc, cconn, sideVars>>

\* QUICServer.Stop: s.listener.Close(). The listener came from quic.ListenAddr,
\* so it owns its socket and closing it ends the connections it accepted: the
\* library closes them at once, or they end later (ListenerSocketGone).
StopCloseListener(closesConns) ==
    /\ stopPc = "close"
    /\ listener' = "closed"
    /\ stopPc' = "wait"
    /\ IF closesConns
       THEN /\ conn' = CloseWithError(conn, Conns, "server closed")
            /\ cconn' = IF cconn = "open" THEN "server closed" ELSE cconn
       ELSE UNCHANGED <<conn, cconn>>
    /\ UNCHANGED <<pc, regMsg, regStream, lastBeat, entries, lastReg, clockVars, handlerVars,
                   ctx, wg, startPc, accepted, cpc, sideVars>>

\* a connection left open by a listener that was closed (never taken)
ConnSurvivesListener(c) ==
    /\ listener = "closed"
    /\ IF c = ClientConn THEN cconn = "open" ELSE conn[c] = "open"
    /\ UNCHANGED vars

\* A connection accepted by the closed listener ends: its socket is gone, so no
\* packet arrives and MaxIdleTimeout runs out.
ListenerSocketGone(c) ==
    /\ listener = "closed"
    /\ IF c = ClientConn
       THEN /\ cconn = "open"
            /\ cconn' = "idle timeout"
            /\ UNCHANGED conn
       ELSE /\ conn[c] = "open"
            /\ conn' = CloseWithError(conn, {c}, "idle timeout")
            /\ UNCHANGED cconn
    /\ UNCHANGED <<pc, regMsg, regStream, lastBeat, entries, lastReg, clockVars, handlerVars,
                   ctx, listener, wg, startPc, accepted, stopPc, cpc, sideVars>>

\* QUICServer.Stop: s.wg.Wait() returns when the counter is zero; Stop returns.
StopReturns ==
    /\ stopPc = "wait"
    /\ wg = 0
    /\ stopPc' = "returned"
    /\ UNCHANGED <<exitVars, entries, lastReg, clockVars, handlerVars,
                   ctx, listener, wg, startPc, accepted, cpc, cconn, sideVars>>

\* handleClientConnection: conn.AcceptStream(ctx) returns a stream; streamWg.Add(1);
\* go handleStream, which blocks in protocol.Decode(stream).
ClientStreamOpens(k) ==
    /\ cpc = "accepting"
    /\ cconn = "open"
    /\ ctx = "live"
    /\ hpc[k] = "idle"
    /\ hpc' = [hpc EXCEPT ![k] = "decode"]
    /\ UNCHANGED <<exitVars, entries, lastReg, clockVars, hmsg, hconn, exitOut, clientOut,
                   serverVars, sideVars>>

\* handleStream: protocol.Decode(stream) fails because the connection is gone.
StreamDecodeFails(k) ==
    /\ hpc[k] = "decode"
    /\ cconn # "open"
    /\ hpc' = [hpc EXCEPT ![k] = "done"]
    /\ UNCHANGED <<exitVars, entries, lastReg, clockVars, hmsg, hconn, exitOut, clientOut,
                   serverVars, sideVars>>

\* handleClientConnection: AcceptStream fails (context cancelled or connection
\* closed); the handler returns into its deferred streamWg.Wait().
ClientHandlerStops ==
    /\ cpc = "accepting"
    /\ ctx = "cancelled" \/ cconn # "open"
    /\ cpc' = "draining"
    /\ UNCHANGED <<exitVars, entries, lastReg, clockVars, handlerVars,
                   ctx, listener, wg, startPc, accepted, stopPc, cconn, sideVars>>

\* handleClientConnection: streamWg.Wait() returns once every stream handler has
\* finished; then the deferred CloseWithError runs and the handler is done.
ClientHandlerDone ==
    /\ cpc = "draining"
    /\ \A k \in Handlers : hpc[k] \in {"idle", "done"}
    /\ cpc' = "done"
    /\ cconn' = IF cconn = "open" THEN "connection closed" ELSE cconn
    /\ wg' = wg - 1
    /\ UNCHANGED <<exitVars, entries, lastReg, clockVars, handlerVars,
                   ctx, listener, startPc, accepted, stopPc, sideVars>>

\* The Client (or the network) ends the Client connection.
ClientClose ==
    /\ cconn = "open"
    /\ cconn' = "closed by peer"
    /\ UNCHANGED <<exitVars, entries, lastReg, clockVars, handlerVars,
                   ctx, listener, wg, startPc, accepted, stopPc, cpc, sideVars>>

(***************************************************************************)
(* The Exit's reverse tunnel (internal/exit/tunnel.go).                    *)
(***************************************************************************)
Min(a, b) == IF a < b THEN a ELSE b

nextBackoff(current, max) == Min(current * 2, max)

Stopped == tctx # "live"

\* top of an attempt: select on t.ctx.Done() with a default. Start goes on to
\* selectRelay, reconnectLoop goes on to its backoff wait.
TunnelCheck ==
    /\ tpc = "check"
    /\ tpc' = IF Stopped THEN "returned" ELSE IF tphase = "start" THEN "select" ELSE "wait"
    /\ UNCHANGED <<relayVars, exitIn, lateVars, streamVars, tphase, backoff, nwait, lastWait, tctx, tconn,
                   dconn, relayUp, outages, acks, ready, readyFires, loops, sentAfterStop,
                   loopsAfterStop>>

\* time.After(backoff) fires. Start doubles the backoff after its wait and
\* retries; reconnectLoop goes on to selectRelay.
WaitDone ==
    /\ tpc = "wait"
    /\ lastWait' = backoff
    /\ nwait' = Min(nwait + 1, MaxWaits)
    /\ IF tphase = "start"
       THEN /\ backoff' = nextBackoff(backoff, maxBackoff)
            /\ tpc' = "check"
       ELSE /\ tpc' = "select"
            /\ UNCHANGED backoff
    /\ UNCHANGED <<relayVars, exitIn, lateVars, streamVars, tphase, tctx, tconn, dconn, relayUp, outages,
                   acks, ready, readyFires, loops, sentAfterStop, loopsAfterStop>>

\* t.ctx.Done() wins the select of the backoff wait.
WaitInterrupted ==
    /\ tpc = "wait"
    /\ Stopped
    /\ tpc' = "returned"
    /\ UNCHANGED <<relayVars, exitIn, lateVars, streamVars, tphase, backoff, nwait, lastWait, tctx, tconn,
                   dconn, relayUp, outages, acks, ready, readyFires, loops, sentAfterStop,
                   loopsAfterStop>>

\* what Start and reconnectLoop do after a failed attempt: Start waits,
\* reconnectLoop doubles the backoff and continues
AfterFailure ==
    IF tphase = "start"
    THEN /\ tpc' = "wait"
         /\ UNCHANGED backoff
    ELSE /\ tpc' = "check"
         /\ backoff' = nextBackoff(backoff, maxBackoff)

\* selectRelay or quic.DialAddr fails: no Relay is reachable.
DialFails ==
    /\ tpc = "select"
    /\ ~relayUp
    /\ AfterFailure
    /\ UNCHANGED <<relayVars, exitIn, lateVars, streamVars, tphase, nwait, lastWait, tctx, tconn, dconn,
                   relayUp, outages, acks, ready, readyFires, loops, sentAfterStop, loopsAfterStop>>

\* selectRelay and quic.DialAddr(ctx, ...) succeed; ctx is the caller's context,
\* which Stop does not cancel.
DialOk ==
    /\ tpc = "select"
    /\ relayUp
    /\ dconn' = "open"
    /\ tpc' = "register"
    /\ UNCHANGED <<relayVars, exitIn, lateVars, streamVars, tphase, backoff, nwait, lastWait, tctx, tconn,
                   relayUp, outages, acks, ready, readyFires, loops, sentAfterStop, loopsAfterStop>>

\* connectAndRegister: OpenStreamSync and stream.Write(regMsg.Encode()); on a
\* failure the new connection is closed and the attempt has failed.
WriteRegister ==
    /\ tpc = "register"
    /\ IF relayUp
       THEN /\ sentAfterStop' = (sentAfterStop \/ Stopped)
            /\ tpc' = "ack"
            /\ UNCHANGED <<dconn, backoff>>
       ELSE /\ dconn' = "none"
            /\ AfterFailure
            /\ UNCHANGED sentAfterStop
    /\ UNCHANGED <<relayVars, exitIn, lateVars, streamVars, tphase, nwait, lastWait, tctx, tconn,
                   relayUp, outages, acks, ready, readyFires, loops, loopsAfterStop>>

\* connectAndRegister: protocol.Decode(stream) returns the RegisterAck and the
\* connection is saved in t.conn; on a failure the new connection is closed.
ReadAck ==
    /\ tpc = "ack"
    /\ IF relayUp
       THEN /\ acks' = Min(acks + 1, MaxAcks)
            /\ tconn' = "open"
            /\ nwait' = 0
            /\ tpc' = "registered"
            /\ UNCHANGED backoff
       ELSE /\ AfterFailure
            /\ UNCHANGED <<acks, tconn, nwait>>
    /\ dconn' = "none"
    /\ UNCHANGED <<relayVars, exitIn, lateVars, streamVars, tphase, lastWait, tctx, relayUp, outages,
                   ready, readyFires, loops, sentAfterStop, loopsAfterStop>>

\* close(t.ready) under t.readyOnce: Start runs it after its connectAndRegister
ReadyOnceDo ==
    /\ ready' = "closed"
    /\ readyFires' = IF ready = "open" THEN readyFires + 1 ELSE readyFires

\* close(t.ready) without the Once, after every registration (never taken)
ReadyEveryTime ==
    /\ ready' = "closed"
    /\ readyFires' = Min(readyFires + 1, MaxAcks)

\* Ready signalled after every registration, reconnections included (never taken)
StartLoopsSignalsAgain ==
    /\ tpc = "registered"
    /\ ReadyEveryTime
    /\ loops' = IF Stopped \/ tconn # "open" THEN "ended" ELSE "running"
    /\ loopsAfterStop' = (loopsAfterStop \/ Stopped)
    /\ tphase' = "reconnect"
    /\ tpc' = "watch"
    /\ UNCHANGED <<relayVars, exitIn, lateVars, streamVars, backoff, nwait, lastWait, tctx, tconn, dconn,
                   relayUp, outages, acks, sentAfterStop>>

\* After connectAndRegister returned nil: Start signals Ready; both Start and
\* reconnectLoop start heartbeatLoop and acceptStreams under a context that is
\* cancelled when the connection ends or t.ctx is done, and then wait for the
\* connection to end.
StartLoops ==
    /\ tpc = "registered"
    /\ IF tphase = "start" THEN ReadyOnceDo ELSE UNCHANGED <<ready, readyFires>>
    /\ loops' = IF Stopped \/ tconn # "open" THEN "ended" ELSE "running"
    /\ loopsAfterStop' = (loopsAfterStop \/ Stopped)
    /\ tphase' = "reconnect"
    /\ tpc' = "watch"
    /\ UNCHANGED <<relayVars, exitIn, lateVars, streamVars, backoff, nwait, lastWait, tctx, tconn, dconn,
                   relayUp, outages, acks, sentAfterStop>>

\* a tunnel that returns when its connection ends (never taken)
WatchGivesUp ==
    /\ tpc = "watch"
    /\ tconn = "closed"
    /\ tpc' = "returned"
    /\ UNCHANGED <<relayVars, exitIn, lateVars, streamVars, tphase, backoff, nwait, lastWait, tctx, tconn,
                   dconn, relayUp, outages, acks, ready, readyFires, loops, sentAfterStop,
                   loopsAfterStop>>

\* reconnectLoop: conn.Context().Done() wins the select; backoff := 1 s.
WatchSeesConnDone ==
    /\ tpc = "watch"
    /\ tconn = "closed"
    /\ backoff' = ReconnectBackoff
    /\ tpc' = "check"
    /\ UNCHANGED <<relayVars, exitIn, lateVars, streamVars, tphase, nwait, lastWait, tctx, tconn, dconn,
                   relayUp, outages, acks, ready, readyFires, loops, sentAfterStop, loopsAfterStop>>

\* reconnectLoop: t.ctx.Done() wins the select; the loop returns.
WatchSeesStop ==
    /\ tpc = "watch"
    /\ Stopped
    /\ tpc' = "returned"
    /\ UNCHANGED <<relayVars, exitIn, lateVars, streamVars, tphase, backoff, nwait, lastWait, tctx, tconn,
                   dconn, relayUp, outages, acks, ready, readyFires, loops, sentAfterStop,
                   loopsAfterStop>>

\* TunnelClient.Stop: t.cancel().
TunnelStopCancel ==
    /\ tctx = "live"
    /\ tctx' = "cancelled"
    /\ loops' = IF loops = "running" THEN "ended" ELSE loops
    /\ UNCHANGED <<relayVars, exitIn, lateVars, streamVars, tpc, tphase, backoff, nwait, lastWait, tconn,
                   dconn, relayUp, outages, acks, ready, readyFires, sentAfterStop, loopsAfterStop>>

\* TunnelClient.Stop: under connMu, t.conn.CloseWithError if t.conn is not nil.
TunnelStopClose ==
    /\ tctx = "cancelled"
    /\ tctx' = "stopped"
    /\ tconn' = IF tconn = "open" THEN "closed" ELSE tconn
    /\ UNCHANGED <<relayVars, exitIn, lateVars, streamVars, tpc, tphase, backoff, nwait, lastWait,
                   dconn, relayUp, outages, acks, ready, readyFires, loops, sentAfterStop,
                   loopsAfterStop>>

\* The saved connection ends (the Relay closed it, or the network did); the
\* loops running on it end with it.
TunnelConnLost ==
    /\ tconn = "open"
    /\ outages < MaxOutages
    /\ outages' = outages + 1
    /\ tconn' = "closed"
    /\ loops' = IF loops = "running" THEN "ended" ELSE loops
    /\ UNCHANGED <<relayVars, exitIn, lateVars, streamVars, tpc, tphase, backoff, nwait, lastWait, tctx,
                   dconn, relayUp, acks, ready, readyFires, sentAfterStop, loopsAfterStop>>

\* The Relay becomes unreachable; the saved connection ends.
RelayFails ==
    /\ relayUp
    /\ outages < MaxOutages
    /\ relayUp' = FALSE
    /\ outages' = outages + 1
    /\ tconn' = IF tconn = "open" THEN "closed" ELSE tconn
    /\ loops' = IF loops = "running" THEN "ended" ELSE loops
    /\ UNCHANGED <<relayVars, exitIn, lateVars, streamVars, tpc, tphase, backoff, nwait, lastWait, tctx,
                   dconn, acks, ready, readyFires, sentAfterStop, loopsAfterStop>>

\* A Relay becomes reachable.
RelayRecovers ==
    /\ ~relayUp
    /\ relayUp' = TRUE
    /\ UNCHANGED <<relayVars, exitIn, lateVars, streamVars, tpc, tphase, backoff, nwait, lastWait, tctx,
                   tconn, dconn, outages, acks, ready, readyFires, loops, sentAfterStop,
                   loopsAfterStop>>

TunnelStep ==
    \/ TunnelCheck
    \/ WaitDone
    \/ DialFails
    \/ DialOk
    \/ WriteRegister
    \/ ReadAck
    \/ StartLoops
    \/ WatchSeesConnDone

TunnelStopStep == TunnelStopCancel \/ TunnelStopClose

(***************************************************************************)
(* The Exit's handler of a StreamRequest (handleIncomingStream,            *)
(* OHTTPHandler.ProcessStreamRequest / writeStreamChunks).                 *)
(***************************************************************************)
\* handleIncomingStream decodes a StreamRequest and ProcessStreamRequest calls
\* prepareStream. If it fails the handler writes Error("stream error: ...");
\* otherwise the backend answers 200 with a body of n SSE events that ends as
\* e says: "eof", or "error" when a read of the body fails.
StreamRequestArrives(prepared, n, e) ==
    /\ spc \in {"idle", "done"}
    /\ sbroken' = FALSE
    /\ IF prepared
       THEN /\ spc' = "scan"
            /\ events' = n
            /\ bodyEnd' = e
            /\ sout' = <<>>
       ELSE /\ spc' = "done"
            /\ events' = 0
            /\ bodyEnd' = "none"
            /\ sout' = <<"Error">>
    /\ UNCHANGED <<relayVars, exitIn, lateVars, tunnelVars>>

\* writeStreamChunks: scanner.Scan() has completed an event; it is encrypted and
\* written as a StreamChunk. A failure of either breaks out of the loop.
ScanEvent(encrypted, written) ==
    /\ spc = "scan"
    /\ events > 0
    /\ IF encrypted /\ written
       THEN /\ sout' = Append(sout, "StreamChunk")
            /\ events' = events - 1
            /\ UNCHANGED <<spc, sbroken>>
       ELSE /\ spc' = "end"
            /\ sbroken' = encrypted
            /\ UNCHANGED <<sout, events>>
    /\ UNCHANGED <<relayVars, exitIn, lateVars, tunnelVars, bodyEnd>>

\* writeStreamChunks: scanner.Scan() returns false, at the end of the body or on
\* a read error alike; scanner.Err() is not consulted.
ScanStops ==
    /\ spc = "scan"
    /\ events = 0
    /\ spc' = "end"
    /\ UNCHANGED <<relayVars, exitIn, lateVars, tunnelVars, events, bodyEnd, sout, sbroken>>

\* a writeStreamChunks that returns after the loop without writing StreamEnd
WriteStreamEndSkipped(written, errWritten) ==
    /\ spc = "end"
    /\ spc' = "done"
    /\ UNCHANGED <<relayVars, exitIn, lateVars, tunnelVars, events, bodyEnd, sout, sbroken>>

\* writeStreamChunks writes StreamEnd after the loop. If that write fails it
\* returns the error and handleIncomingStream tries to write an Error message.
WriteStreamEnd(written, errWritten) ==
    /\ spc = "end"
    /\ spc' = "done"
    /\ sout' = IF written THEN Append(sout, "StreamEnd")
               ELSE IF errWritten THEN Append(sout, "Error") ELSE sout
    /\ sbroken' = (sbroken \/ ~written)
    /\ UNCHANGED <<relayVars, exitIn, lateVars, tunnelVars, events, bodyEnd>>

NextExitStream ==
    \/ \E prepared \in BOOLEAN, n \in 0..MaxEvents, e \in {"eof", "error"} :
           StreamRequestArrives(prepared, n, e)
    \/ \E encrypted, written \in BOOLEAN : ScanEvent(encrypted, written)
    \/ ScanStops
    \/ \E written, errWritten \in BOOLEAN : WriteStreamEnd(written, errWritten)

SpecExitStream == Init /\ [][NextExitStream]_vars

(***************************************************************************)
(* The Exit's handler of one stream the Relay opened on the tunnel          *)
(* (TunnelClient.handleIncomingStream, OHTTPHandler.decryptAndForward and   *)
(* prepareStream, OHTTPServer.DecapsulateRequest).                          *)
(***************************************************************************)
\* %d of fmt for the numbers that occur
Itoa(n) ==
    CASE n = 1 -> "1" [] n = 2 -> "2" [] n = 200 -> "200" [] n = 502 -> "502" [] OTHER -> "?"

\* fmt.Errorf("text: %w", err) and fmt.Sprintf("text: %v", err): the text of an
\* error is a sequence of pieces, the fixed text first and then the text of err
Errorf(text, err) == <<text>> \o err

\* DecapsulateRequest, as the text of the error it returns (<<>>: nil)
DecapsulateRequest(req) ==
    IF req.keyID # ServerKeyID
    THEN <<"KeyID mismatch", "expected", Itoa(ServerKeyID), "received", Itoa(req.keyID)>>
    ELSE IF req.suite # OwnSuite
    THEN <<"unsupported suite">>
    ELSE IF ~req.opens
    THEN Errorf("decrypt request failed", <<"hpke: message authentication failed">>)
    ELSE <<>>

\* ServerContext.EncapsulateResponse: the sealed HTTP response
EncapsulateResponse(status, body) == <<"sealed", Itoa(status), body>>

NewResponseMessage(bytes) == [type |-> "Response", target |-> NoTarget, payload |-> bytes]

\* the fixed text handleIncomingStream puts before the error of a request
ErrorPrefix(t) == IF t = "Request" THEN "process error" ELSE "stream error"

\* acceptStreams hands a stream to handleIncomingStream, which decodes the first
\* message: a decode failure, a Heartbeat and an unknown type are answered at
\* once, a Request or StreamRequest goes on to the OHTTP handler.
IncomingStream(decoded, t, req) ==
    /\ xpc \in {"idle", "done"}
    /\ tconn = "open" /\ loops = "running"
    /\ xserved < MaxServed
    /\ xserved' = xserved + 1
    /\ xstatus' = 0
    /\ xbody' = "none"
    /\ IF ~decoded
       THEN /\ xmsg' = "none"
            /\ xreq' = NoRequest
            /\ xout' = Error(Errorf("decode error", <<"unexpected EOF">>))
            /\ xpc' = "done"
       ELSE /\ xmsg' = t
            /\ IF t \in {"Request", "StreamRequest"}
               THEN /\ xreq' = req
                    /\ xout' = NoMsg
                    /\ xpc' = "decap"
               ELSE /\ xreq' = NoRequest
                    /\ xout' = IF t = "Heartbeat"
                               THEN [type |-> "HeartbeatAck", target |-> NoTarget, payload |-> <<>>]
                               ELSE Error(Errorf("unknown message type", <<"0x02">>))
                    /\ xpc' = "done"
    /\ UNCHANGED <<earlyVars, connVars, strmVars, detectVars, decodeVars, xrefused>>

\* decryptAndForward / prepareStream: DecapsulateRequest, and for a StreamRequest
\* NewStreamEncryptor (keyed: it succeeds). An error returns to
\* handleIncomingStream, which writes it in an Error message.
Decapsulate(keyed) ==
    /\ xpc = "decap"
    /\ LET err == DecapsulateRequest(xreq)
       IN  IF err # <<>>
           THEN /\ xout' = Error(Errorf(ErrorPrefix(xmsg), Errorf("decapsulate failed", err)))
                /\ xpc' = "done"
                /\ xrefused' = (xrefused \/ xreq.keyID # ServerKeyID \/ xreq.suite # OwnSuite)
           ELSE IF xmsg = "StreamRequest" /\ ~keyed
           THEN /\ xout' = Error(Errorf(ErrorPrefix(xmsg),
                                  Errorf("create stream encryptor failed", <<"hpke: export failed">>)))
                /\ xpc' = "done"
                /\ UNCHANGED xrefused
           ELSE /\ xpc' = "forward"
                /\ UNCHANGED <<xout, xrefused>>
    /\ UNCHANGED <<earlyVars, connVars, strmVars, detectVars, decodeVars, xmsg, xreq, xstatus, xbody, xserved>>

\* aiClient.Forward of a Request: the backend's answer, whatever its status, is
\* encapsulated and written as the Response; when the backend cannot be reached
\* a 502 is made up and encapsulated. (sealed: EncapsulateResponse succeeds.)
ForwardRequest(answered, status, body, sealed) ==
    /\ xpc = "forward"
    /\ xmsg = "Request"
    /\ xpc' = "done"
    /\ xstatus' = IF answered THEN status ELSE 0
    /\ xbody' = IF answered THEN body ELSE "none"
    /\ xout' = IF ~sealed
               THEN Error(Errorf("process error",
                          Errorf("encrypt response failed", <<"hpke: seal failed">>)))
               ELSE IF answered
               THEN NewResponseMessage(EncapsulateResponse(status, body))
               ELSE NewResponseMessage(EncapsulateResponse(502, "AI backend unavailable"))
    /\ UNCHANGED <<earlyVars, connVars, strmVars, detectVars, decodeVars, xmsg, xreq, xserved, xrefused>>

\* prepareStream after aiClient.ForwardStream of a StreamRequest: an unreachable
\* backend and a status other than 200 are errors, written in an Error message
\* by handleIncomingStream; after a 200 writeStreamChunks streams the body.
ForwardStreamRequest(answered, status, body) ==
    /\ xpc = "forward"
    /\ xmsg = "StreamRequest"
    /\ xpc' = "done"
    /\ xstatus' = IF answered THEN status ELSE 0
    /\ xbody' = IF answered THEN body ELSE "none"
    /\ xout' = IF ~answered
               THEN Error(Errorf("stream error",
                          Errorf("forward request failed", <<"dial tcp 10.0.0.7:8080: refused">>)))
               ELSE IF status # 200
               THEN Error(Errorf("stream error",
                          <<"AI backend returned error", Itoa(status), body>>))
               ELSE [type |-> "StreamChunk", target |-> NoTarget,
                     payload |-> EncapsulateResponse(status, body)]
    /\ UNCHANGED <<earlyVars, connVars, strmVars, detectVars, decodeVars, xmsg, xreq, xserved, xrefused>>

ExitRequestStep ==
    \/ \E decoded \in BOOLEAN, t \in {"Request", "StreamRequest", "Heartbeat", "Response"},
          req \in OHTTPRequests : IncomingStream(decoded, t, req)
    \/ \E keyed \in BOOLEAN : Decapsulate(keyed)
    \/ \E answered, sealed \in BOOLEAN, status \in BackendStatuses, body \in Bodies :
           ForwardRequest(answered, status, body, sealed)
    \/ \E answered \in BOOLEAN, status \in BackendStatuses, body \in Bodies :
           ForwardStreamRequest(answered, status, body)

(***************************************************************************)
(* The Client's local proxy: detectStreaming.                              *)
(***************************************************************************)
\* strings.Contains
stringsContains(s, sub) ==
    \E i \in 1..(Len(s) - Len(sub) + 1) : \A j \in 1..Len(sub) : s[i + j - 1] = sub[j]

\* encoding/json matches the name of an object's field with the name of the
\* struct's tag exactly or, failing that, with the case of letters ignored
FoldName(name) == IF name = "Stream" THEN "stream" ELSE name

\* json.Unmarshal of the fields of an object into struct{Stream *bool}, from
\* the value so far: a bool sets the pointer, null clears it, a value of
\* another type leaves it and is reported as the error once all is decoded
RECURSIVE unmarshalFields(_, _)
unmarshalFields(fs, acc) ==
    IF fs = <<>> THEN acc
    ELSE LET name == Head(fs)[1]
             v == Head(fs)[2]
             next == IF FoldName(name) # "stream" THEN acc
                     ELSE IF v \in {"true", "false"} THEN [acc EXCEPT !.stream = v]
                     ELSE IF v = "null" THEN [acc EXCEPT !.stream = "nil"]
                     ELSE [acc EXCEPT !.err = TRUE]
         IN  unmarshalFields(Tail(fs), next)

\* json.Unmarshal(body, &partial)
jsonUnmarshal(body) ==
    IF body.kind \in {"empty", "invalid", "array"} THEN [err |-> TRUE, stream |-> "nil"]
    ELSE unmarshalFields(body.fields, [err |-> FALSE, stream |-> "nil"])

detectStreaming(body, path, accept) ==
    IF /\ body.kind # "empty"
       /\ ~jsonUnmarshal(body).err
       /\ jsonUnmarshal(body).stream = "true"
    THEN "streaming"
    ELSE IF stringsContains(path, Str_stream) THEN "streaming"
    ELSE IF stringsContains(accept, Str_eventStream) THEN "streaming"
    ELSE "unary"

\* LocalProxy.handleRequest reads the body of a request and classifies it (the
\* handler keeps nothing from one request to the next: one request is followed)
HandleRequest(body, path, accept) ==
    /\ dresult = "none"
    /\ dbody' = body
    /\ dpath' = path
    /\ daccept' = accept
    /\ dresult' = detectStreaming(body, path, accept)
    /\ UNCHANGED <<earlyVars, connVars, strmVars, exitReqVars, decodeVars>>

NextDetect == \E body \in RequestBodies, path \in Paths, accept \in Accepts :
                  HandleRequest(body, path, accept)

SpecDetect == Init /\ [][NextDetect]_vars

(***************************************************************************)
(* protocol.Decode, one read at a time.                                    *)
(***************************************************************************)
\* a length check that lets every length through (never taken)
withinAnyLimit(n, limit) == TRUE

\* the length checks of Decode: targetLen > maxTargetSize, payloadLen > maxPayloadSize
withinLimit(n, limit) == ~(n > limit)

Max(a, b) == IF a > b THEN a ELSE b

\* make([]byte, n) followed by io.ReadFull into it: whether the reader has the n
\* bytes, what has then been read and the largest buffer allocated
ReadFull(n) ==
    [ok |-> ravail - rread >= n,
     read |-> IF ravail - rread >= n THEN rread + n ELSE ravail,
     alloc |-> Max(ralloc, n)]

\* Decode is called on a reader that holds a frame claiming tlen and plen
DecodeBegin(tlen, plen, avail) ==
    /\ rpc \in {"idle", "ok", "error"}
    /\ rpc' = "header"
    /\ rtlen' = tlen
    /\ rplen' = plen
    /\ ravail' = avail
    /\ rread' = 0
    /\ ralloc' = 0
    /\ UNCHANGED <<earlyVars, connVars, strmVars, exitReqVars, detectVars>>

\* the 3 bytes of type and TargetLen are read, and TargetLen is checked
DecodeHeader ==
    /\ rpc = "header"
    /\ LET r == ReadFull(3)
       IN  /\ rread' = r.read
           /\ ralloc' = r.alloc
           /\ rpc' = IF r.ok /\ withinLimit(rtlen, maxTargetSize) THEN "target" ELSE "error"
    /\ UNCHANGED <<earlyVars, connVars, strmVars, exitReqVars, detectVars, rtlen, rplen, ravail>>

\* the target buffer is allocated, and filled when TargetLen > 0
DecodeTarget ==
    /\ rpc = "target"
    /\ LET r == ReadFull(rtlen)
       IN  /\ rread' = r.read
           /\ ralloc' = r.alloc
           /\ rpc' = IF r.ok THEN "length" ELSE "error"
    /\ UNCHANGED <<earlyVars, connVars, strmVars, exitReqVars, detectVars, rtlen, rplen, ravail>>

\* the 4 bytes of PayloadLen are read, and PayloadLen is checked
DecodePayloadLen ==
    /\ rpc = "length"
    /\ LET r == ReadFull(4)
       IN  /\ rread' = r.read
           /\ ralloc' = r.alloc
           /\ rpc' = IF r.ok /\ withinLimit(rplen, maxPayloadSize) THEN "payload" ELSE "error"
    /\ UNCHANGED <<earlyVars, connVars, strmVars, exitReqVars, detectVars, rtlen, rplen, ravail>>

\* the payload buffer is allocated and filled, and the message returned
DecodePayload ==
    /\ rpc = "payload"
    /\ LET r == ReadFull(rplen)
       IN  /\ rread' = r.read
           /\ ralloc' = r.alloc
           /\ rpc' = IF r.ok THEN "ok" ELSE "error"
    /\ UNCHANGED <<earlyVars, connVars, strmVars, exitReqVars, detectVars, rtlen, rplen, ravail>>

NextDecode ==
    \/ \E tlen \in TargetLens, plen \in PayloadLens, avail \in StreamLens :
           DecodeBegin(tlen, plen, avail)
    \/ DecodeHeader
    \/ DecodeTarget
    \/ DecodePayloadLen
    \/ DecodePayload

SpecDecode == Init /\ [][NextDecode]_vars

(***************************************************************************)
(* The Client's connection to the Relay (Client.connect, connectToAddr,     *)
(* Connect, getConnection, Close), called from several goroutines.          *)
(***************************************************************************)
\* caller p enters a method of the Client
ClientCall(p, op) ==
    /\ kpc[p] = "idle"
    /\ kop' = [kop EXCEPT ![p] = op]
    /\ kpc' = [kpc EXCEPT ![p] = "lock"]
    /\ kgot' = [kgot EXCEPT ![p] = 0]
    /\ UNCHANGED <<earlyVars, exitReqVars, detectVars, decodeVars, strmVars,
                   mu, kconn, qconn, dials>>

\* c.connMu.Lock() of Connect, getConnection and Close
ClientLock(p) ==
    /\ kpc[p] = "lock"
    /\ mu = 0
    /\ mu' = p
    /\ kpc' = [kpc EXCEPT ![p] = CASE kop[p] = "Connect" -> "connect"
                                   [] kop[p] = "Close" -> "close"
                                   [] OTHER -> "check"]
    /\ UNCHANGED <<earlyVars, exitReqVars, detectVars, decodeVars, strmVars,
                   kconn, qconn, kop, kgot, dials>>

\* getConnection: c.conn is returned when it is set and its context is not
\* done; otherwise connect is called
GetConnectionCheck(p) ==
    /\ kpc[p] = "check"
    /\ IF kconn # 0 /\ qconn[kconn] = "open"
       THEN /\ kgot' = [kgot EXCEPT ![p] = kconn]
            /\ mu' = 0
            /\ kpc' = [kpc EXCEPT ![p] = "use"]
       ELSE /\ kpc' = [kpc EXCEPT ![p] = "connect"]
            /\ UNCHANGED <<kgot, mu>>
    /\ UNCHANGED <<earlyVars, exitReqVars, detectVars, decodeVars, strmVars,
                   kconn, qconn, kop, dials>>

\* a connect that forgets the old connection without closing it (never taken)
ConnectKeepsOld(p) ==
    /\ kpc[p] = "connect"
    /\ kconn' = 0
    /\ kpc' = [kpc EXCEPT ![p] = "dial"]
    /\ UNCHANGED <<earlyVars, exitReqVars, detectVars, decodeVars, strmVars,
                   mu, qconn, kop, kgot, dials>>

\* connect: the old connection, if any, is closed and c.conn set to nil
ConnectCloseOld(p) ==
    /\ kpc[p] = "connect"
    /\ qconn' = IF kconn # 0 THEN [qconn EXCEPT ![kconn] = "closed"] ELSE qconn
    /\ kconn' = 0
    /\ kpc' = [kpc EXCEPT ![p] = "dial"]
    /\ UNCHANGED <<earlyVars, exitReqVars, detectVars, decodeVars, strmVars,
                   mu, kop, kgot, dials>>

\* connectToAddr: quic.DialAddr succeeds (ok) and the connection is stored in
\* c.conn, or fails; the method returns and the deferred Unlock runs.
\* getConnection returns c.conn to its caller.
ConnectDial(p, ok) ==
    /\ kpc[p] = "dial"
    /\ ok => dials < MaxDials
    /\ mu' = 0
    /\ IF ok
       THEN /\ dials' = dials + 1
            /\ qconn' = [qconn EXCEPT ![dials + 1] = "open"]
            /\ kconn' = dials + 1
            /\ kgot' = [kgot EXCEPT ![p] = IF kop[p] = "Connect" THEN 0 ELSE dials + 1]
            /\ kpc' = [kpc EXCEPT ![p] = IF kop[p] = "Connect" THEN "idle" ELSE "use"]
       ELSE /\ kpc' = [kpc EXCEPT ![p] = "idle"]
            /\ UNCHANGED <<dials, qconn, kconn, kgot>>
    /\ UNCHANGED <<earlyVars, exitReqVars, detectVars, decodeVars, strmVars, kop>>

\* Close: c.conn, if set, is closed and set to nil
ClientCloseConn(p) ==
    /\ kpc[p] = "close"
    /\ qconn' = IF kconn # 0 THEN [qconn EXCEPT ![kconn] = "closed"] ELSE qconn
    /\ kconn' = 0
    /\ mu' = 0
    /\ kpc' = [kpc EXCEPT ![p] = "idle"]
    /\ UNCHANGED <<earlyVars, exitReqVars, detectVars, decodeVars, strmVars,
                   kop, kgot, dials>>

\* SendRequest, SendStreamRequest and QueryExitKeys open a stream on the
\* connection they were given, outside the mutex, and go on to their exchange
ClientUse(p) ==
    /\ kpc[p] = "use"
    /\ kpc' = [kpc EXCEPT ![p] = "idle"]
    /\ kgot' = [kgot EXCEPT ![p] = 0]
    /\ UNCHANGED <<earlyVars, exitReqVars, detectVars, decodeVars, strmVars,
                   mu, kconn, qconn, kop, dials>>

\* a connection ends without the Client closing it: the Relay closed it or it
\* timed out idle, and its context is done
ClientConnEnds(i) ==
    /\ qconn[i] = "open"
    /\ qconn' = [qconn EXCEPT ![i] = "closed"]
    /\ UNCHANGED <<earlyVars, exitReqVars, detectVars, decodeVars, strmVars,
                   mu, kconn, kpc, kop, kgot, dials>>

NextClientConn ==
    \/ \E p \in Callers, op \in ClientOps : ClientCall(p, op)
    \/ \E p \in Callers : ClientLock(p)
    \/ \E p \in Callers : GetConnectionCheck(p)
    \/ \E p \in Callers : ConnectCloseOld(p)
    \/ \E p \in Callers, ok \in BOOLEAN : ConnectDial(p, ok)
    \/ \E p \in Callers : ClientCloseConn(p)
    \/ \E p \in Callers : ClientUse(p)
    \/ \E i \in 1..MaxDials : ClientConnEnds(i)

SpecClientConn == Init /\ [][NextClientConn]_vars

(***************************************************************************)
(* Client.SendStreamRequest and the StreamResponse it returns, read by       *)
(* LocalProxy.handleStreamingRequest.                                        *)
(***************************************************************************)
\* StreamEncryptor.EncryptChunk and StreamDecryptor.DecryptChunk of one stream:
\* a chunk is sealed and authenticated on its own; opening anything else fails
EncryptChunk(event) == IF event = "event a" THEN "sealed a" ELSE "sealed b"
DecryptChunk(payload) ==
    IF \E e \in Events : EncryptChunk(e) = payload
    THEN [kind |-> "bytes", bytes |-> CHOOSE e \in Events : EncryptChunk(e) = payload]
    ELSE [kind |-> "error", bytes |-> ""]

\* what the Relay can deliver on the Client's stream: StreamChunks that open
\* and one that does not, StreamEnd, Error, a message of another type, and
\* bytes Decode rejects
ClientFrames ==
    {Encode([type |-> "StreamChunk", target |-> NoTarget, payload |-> c]) :
        c \in {EncryptChunk(e) : e \in Events} \cup {"garbled"}}
    \cup {Encode([type |-> t, target |-> NoTarget, payload |-> ""]) : t \in {"StreamEnd", "RegisterAck"}}
    \cup {Encode([type |-> "Error", target |-> NoTarget, payload |-> "exit not found"])}
    \cup {[type |-> "StreamChunk", tlen |-> 0, target |-> NoTarget,
           plen |-> maxPayloadSize + 1, payload |-> "sealed a"]}
FrameSeqs == UNION {[1..n -> ClientFrames] : n \in 0..MaxFrames}

\* a ReadChunk that takes a message of an unexpected type for the end (never taken)
chunkResultLenient(msg) ==
    IF msg.type = "StreamChunk" THEN DecryptChunk(msg.payload)
    ELSE IF msg.type = "Error" THEN [kind |-> "error", bytes |-> ""]
    ELSE [kind |-> "eof", bytes |-> ""]

\* the switch of ReadChunk on the type of the message it decoded
chunkResult(msg) ==
    CASE msg.type = "StreamChunk" -> DecryptChunk(msg.payload)
      [] msg.type = "StreamEnd" -> [kind |-> "eof", bytes |-> ""]
      [] msg.type = "Error" -> [kind |-> "error", bytes |-> ""]
      [] OTHER -> [kind |-> "error", bytes |-> ""]

\* SendStreamRequest: getConnection and OpenStreamSync (opened: both succeed)
SendStreamRequest(opened) ==
    /\ zpc \in {"idle", "failed", "closed"}
    /\ zpc' = IF opened THEN "opened" ELSE "failed"
    /\ zwrite' = IF opened THEN "open" ELSE "none"
    /\ zsent' = "none"
    /\ zin' = <<>>
    /\ zres' = NoResult
    /\ UNCHANGED <<earlyVars, connVars, exitReqVars, detectVars, decodeVars>>

\* EncapsulateRequest, then stream.Write of the StreamRequest; when either
\* fails the stream is closed and the error returned
WriteStreamRequest(encapsulated, written) ==
    /\ zpc = "opened"
    /\ IF encapsulated /\ written
       THEN /\ zsent' = "StreamRequest"
            /\ zpc' = "written"
            /\ UNCHANGED zwrite
       ELSE /\ zwrite' = "closed"
            /\ zpc' = "failed"
            /\ UNCHANGED zsent
    /\ UNCHANGED <<earlyVars, connVars, exitReqVars, detectVars, decodeVars, zin, zres>>

\* stream.Close(): the write side of the stream is closed, the read side stays
\* open (closedOk: Close returns nil)
CloseWriteSide(closedOk) ==
    /\ zpc = "written"
    /\ zwrite' = "closed"
    /\ zpc' = IF closedOk THEN "decryptor" ELSE "failed"
    /\ UNCHANGED <<earlyVars, connVars, exitReqVars, detectVars, decodeVars, zsent, zin, zres>>

\* NewStreamDecryptor, and the StreamResponse is returned; frames is what the
\* stream will deliver to it
ReturnStreamResponse(derived, frames) ==
    /\ zpc = "decryptor"
    /\ IF derived
       THEN /\ zpc' = "handle"
            /\ zin' = frames
       ELSE /\ zpc' = "failed"
            /\ UNCHANGED zin
    /\ UNCHANGED <<earlyVars, connVars, exitReqVars, detectVars, decodeVars, zwrite, zsent, zres>>

\* StreamResponse.ReadChunk: one protocol.Decode on the stream and the switch
\* on the type; the stream ending before a frame is an error of Decode too.
\* handleStreamingRequest reads on after bytes and stops after anything else.
ReadChunk ==
    /\ zpc = "handle"
    /\ IF zin = <<>>
       THEN /\ zres' = [kind |-> "error", bytes |-> ""]
            /\ UNCHANGED zin
       ELSE /\ zres' = IF DecodeOk(Head(zin)) THEN chunkResult(Decode(Head(zin)))
                       ELSE [kind |-> "error", bytes |-> ""]
            /\ zin' = Tail(zin)
    /\ zpc' = IF zres'.kind = "bytes" THEN "handle" ELSE "finished"
    /\ UNCHANGED <<earlyVars, connVars, exitReqVars, detectVars, decodeVars, zwrite, zsent>>

\* StreamResponse.Close (deferred in handleStreamingRequest): CancelRead
StreamResponseClose ==
    /\ zpc = "finished"
    /\ zpc' = "closed"
    /\ UNCHANGED <<earlyVars, connVars, exitReqVars, detectVars, decodeVars,
                   zwrite, zsent, zin, zres>>

NextClientStream ==
    \/ \E opened \in BOOLEAN : SendStreamRequest(opened)
    \/ \E encapsulated, written \in BOOLEAN : WriteStreamRequest(encapsulated, written)
    \/ \E closedOk \in BOOLEAN : CloseWriteSide(closedOk)
    \/ \E derived \in BOOLEAN, frames \in FrameSeqs : ReturnStreamResponse(derived, frames)
    \/ ReadChunk
    \/ StreamResponseClose

SpecClientStream == Init /\ [][NextClientStream]_vars

(***************************************************************************)
(* The load balancer's selectors (internal/loadbalancer/selector.go).      *)
(***************************************************************************)
\* filterHealthy: the candidates with fewer than threshold failures, in order
filterHealthy(cands, failures, threshold) ==
    SelectSeq(cands, LAMBDA c : failures[c] < threshold)

\* getWeight: 0 after three failures; the stored weight (1.0 by default)
\* divided by failures + 1 otherwise
getWeight(weights, failures, id) ==
    IF failures[id] >= healthyThreshold
    THEN 0
    ELSE LET w == IF weights[id] = NoWeight THEN WeightOne ELSE weights[id]
         IN  IF failures[id] > 0 THEN w \div (failures[id] + 1) ELSE w

RECURSIVE cumulative(_, _, _, _)
\* the sum of the weights of the first i candidates
cumulative(cands, weights, failures, i) ==
    IF i = 0
    THEN 0
    ELSE cumulative(cands, weights, failures, i - 1) + getWeight(weights, failures, cands[i])

\* WeightedSelector.Select with totalWeight > 0: r := rand.Float64() * totalWeight
\* with rand.Float64() = n / DrawDen; the first candidate with r <= cumulative
\* is returned, the last one if there is none
weightedPick(cands, weights, failures, n) ==
    LET total == cumulative(cands, weights, failures, Len(cands))
        hits == {i \in 1..Len(cands) :
                    n * total <= DrawDen * cumulative(cands, weights, failures, i)}
    IN  IF hits = {}
        THEN cands[Len(cands)]
        ELSE cands[CHOOSE i \in hits : \A j \in hits : i <= j]

\* NewWeightedSelector, NewRoundRobinSelector, NewRandomSelector
NewSelector(kind) ==
    /\ lbKind = "none"
    /\ lbKind' = kind
    /\ UNCHANGED <<baseVars, sendVars, lbWeights, lbFailures, lbIndex, lbCands, lbPicked, lbSelects, lbReports>>

\* WeightedSelector.Select(candidates); n and idx are the values rand.Float64()
\* and rand.IntN draw
WeightedSelect(cands, n, idx) ==
    /\ lbKind = "Weighted"
    /\ lbCands' = cands
    /\ lbSelects' = 1 - lbSelects
    /\ IF Len(cands) = 0
       THEN n = 0 /\ idx = 0 /\ lbPicked' = NoPeer
       ELSE IF cumulative(cands, lbWeights, lbFailures, Len(cands)) <= 0
       THEN n = 0 /\ idx < Len(cands) /\ lbPicked' = cands[idx + 1]
       ELSE idx = 0 /\ lbPicked' = weightedPick(cands, lbWeights, lbFailures, n)
    /\ UNCHANGED <<baseVars, sendVars, lbKind, lbWeights, lbFailures, lbIndex, lbReports>>

\* RoundRobinSelector.Select(candidates)
RoundRobinSelect(cands) ==
    /\ lbKind = "RoundRobin"
    /\ lbCands' = cands
    /\ lbSelects' = 1 - lbSelects
    /\ IF Len(cands) = 0
       THEN lbPicked' = NoPeer /\ UNCHANGED <<lbFailures, lbIndex>>
       ELSE LET filtered == filterHealthy(cands, lbFailures, healthyThreshold)
                resetNeeded == Len(filtered) = 0
                healthy == IF resetNeeded THEN cands ELSE filtered
            IN  /\ lbFailures' = IF resetNeeded THEN [p \in Peers |-> 0] ELSE lbFailures
                /\ lbIndex' = (lbIndex + 1) % Len(healthy)
                /\ lbPicked' = healthy[lbIndex' + 1]
    /\ UNCHANGED <<baseVars, sendVars, lbKind, lbWeights, lbReports>>

\* RandomSelector.Select(candidates); idx is the value rand.IntN draws
RandomSelect(cands, idx) ==
    /\ lbKind = "Random"
    /\ lbCands' = cands
    /\ lbSelects' = 1 - lbSelects
    /\ IF Len(cands) = 0
       THEN idx = 0 /\ lbPicked' = NoPeer /\ UNCHANGED lbFailures
       ELSE LET filtered == filterHealthy(cands, lbFailures, healthyThreshold)
                resetNeeded == Len(filtered) = 0
                healthy == IF resetNeeded THEN cands ELSE filtered
            IN  /\ idx < Len(healthy)
                /\ lbFailures' = IF resetNeeded THEN [p \in Peers |-> 0] ELSE lbFailures
                /\ lbPicked' = healthy[idx + 1]
    /\ UNCHANGED <<baseVars, sendVars, lbKind, lbWeights, lbIndex, lbReports>>

\* ReportSuccess(peerID): the failure count is deleted; the WeightedSelector
\* raises a stored weight by a tenth (at most 10.0) and stores 1.0 otherwise
ReportSuccess(p) ==
    /\ lbKind # "none"
    /\ lbReports < MaxReports
    /\ lbReports' = lbReports + 1
    /\ lbFailures' = [lbFailures EXCEPT ![p] = 0]
    /\ lbWeights' = IF lbKind # "Weighted"
                    THEN lbWeights
                    ELSE IF lbWeights[p] = NoWeight
                    THEN [lbWeights EXCEPT ![p] = WeightOne]
                    ELSE [lbWeights EXCEPT ![p] = Min((@ * 11) \div 10, 10 * WeightOne)]
    /\ UNCHANGED <<baseVars, sendVars, lbKind, lbIndex, lbCands, lbPicked, lbSelects>>

\* ReportFailure(peerID): the failure count goes up; the WeightedSelector halves
\* a stored weight (at least 0.1)
ReportFailure(p) ==
    /\ lbKind # "none"
    /\ lbReports < MaxReports
    /\ lbReports' = lbReports + 1
    /\ lbFailures' = [lbFailures EXCEPT ![p] = @ + 1]
    /\ lbWeights' = IF lbKind = "Weighted" /\ lbWeights[p] # NoWeight
                    THEN [lbWeights EXCEPT ![p] = Max(@ \div 2, WeightOne \div 10)]
                    ELSE lbWeights
    /\ UNCHANGED <<baseVars, sendVars, lbKind, lbIndex, lbCands, lbPicked, lbSelects>>

\* WeightedSelector.SetWeight(peerID, weight)
SetWeight(p, w) ==
    /\ lbKind = "Weighted"
    /\ lbReports < MaxReports
    /\ lbReports' = lbReports + 1
    /\ lbWeights' = [lbWeights EXCEPT ![p] = w]
    /\ UNCHANGED <<baseVars, sendVars, lbKind, lbFailures, lbIndex, lbCands, lbPicked, lbSelects>>

(***************************************************************************)
(* The Client's SetExit and SendRequest / SendStreamRequest. SetExit holds *)
(* c.connMu for its two assignments; the senders hold it in getConnection  *)
(* only, and read c.ohttpClient and c.exitPubKeyHash after releasing it.   *)
(***************************************************************************)
\* SetExit: c.connMu.Lock() and c.exitPubKeyHash = crypto.PubKeyHash(publicKey)
SetExitHash(k) ==
    /\ setPc = "idle"
    /\ sendPc # "conn"
    /\ exitPubKeyHash' = PubKeyHash(k)
    /\ setKey' = k
    /\ setPc' = "client"
    /\ UNCHANGED <<baseVars, selVars, ohttpClient, sendPc, sendType, sendKey, sendMsg>>

\* SetExit: c.ohttpClient = ohttpClient, then the deferred Unlock
SetExitClient ==
    /\ setPc = "client"
    /\ ohttpClient' = setKey
    /\ setPc' = "idle"
    /\ UNCHANGED <<baseVars, selVars, exitPubKeyHash, setKey, sendPc, sendType, sendKey, sendMsg>>

\* SendRequest (t = "Request") or SendStreamRequest (t = "StreamRequest") is
\* called and takes c.connMu in getConnection
SendGetConnection(t) ==
    /\ sendPc \in {"idle", "sent"}
    /\ setPc = "idle"
    /\ sendType' = t
    /\ sendKey' = NoPubKey
    /\ sendMsg' = NoSent
    /\ sendPc' = "conn"
    /\ UNCHANGED <<baseVars, selVars, exitPubKeyHash, ohttpClient, setPc, setKey>>

\* getConnection returns and releases c.connMu; conn.OpenStreamSync
SendOpenStream ==
    /\ sendPc = "conn"
    /\ sendPc' = "encap"
    /\ UNCHANGED <<baseVars, selVars, exitPubKeyHash, ohttpClient, setPc, setKey, sendType, sendKey,
                   sendMsg>>

\* c.ohttpClient.EncapsulateRequest(req): the payload is sealed to the key of
\* the OHTTP client the field holds at this moment
SendEncapsulate ==
    /\ sendPc = "encap"
    /\ sendKey' = ohttpClient
    /\ sendPc' = "write"
    /\ UNCHANGED <<baseVars, selVars, exitPubKeyHash, ohttpClient, setPc, setKey, sendType, sendMsg>>

\* protocol.NewRequestMessage / NewStreamRequestMessage(c.exitPubKeyHash,
\* ohttpReq) and stream.Write
SendWrite ==
    /\ sendPc = "write"
    /\ sendMsg' = [type |-> sendType, target |-> exitPubKeyHash, key |-> sendKey]
    /\ sendPc' = "sent"
    /\ UNCHANGED <<baseVars, selVars, exitPubKeyHash, ohttpClient, setPc, setKey, sendType, sendKey>>

\* one sender and the callers of SetExit
NextSend ==
    \/ \E k \in ExitPubKeys : SetExitHash(k)
    \/ SetExitClient
    \/ \E t \in {"Request", "StreamRequest"} : SendGetConnection(t)
    \/ SendOpenStream
    \/ SendEncapsulate
    \/ SendWrite

SpecSend == Init /\ [][NextSend]_vars

NextSelector ==
    \/ \E kind \in SelectorKinds : NewSelector(kind)
    \/ \E cands \in CandidateLists, n \in Draws, idx \in 0..(NumPeers - 1) :
           WeightedSelect(cands, n, idx)
    \/ \E cands \in CandidateLists : RoundRobinSelect(cands)
    \/ \E cands \in CandidateLists, idx \in 0..(NumPeers - 1) : RandomSelect(cands, idx)
    \/ \E p \in Peers : ReportSuccess(p)
    \/ \E p \in Peers : ReportFailure(p)
    \/ \E p \in Peers, w \in SetWeights : SetWeight(p, w)

SpecSelector == Init /\ [][NextSelector]_vars

ExitStep(c) ==
    \/ HandleRegister(c)
    \/ RegistryRegister(c)
    \/ \E t \in {"Heartbeat", "Other"} : AcceptHeartbeatStream(c, t)
    \/ HandleHeartbeat(c)
    \/ WriteHeartbeatAck(c)
    \/ Teardown(c)
    \/ ExitClose(c)

ExitNext ==
    \/ \E c \in Conns, m \in FirstMsgs : ExitConnect(c, m)
    \/ \E c \in Conns : ExitStep(c)

RouteStep(k) ==
    \/ OpenStream(k)
    \/ OpenStreamFails(k)
    \/ WriteRequest(k)

UnaryStep(k) ==
    \/ \E t \in {"Response", "Error"} : ForwardResponse(k, t)
    \/ ReadResponseFails(k)

PumpStep(k) ==
    \/ \E f \in StreamReplies : ForwardChunk(k, f, TRUE)
    \/ ReadChunkFails(k)

HandlerNext(K) ==
    \/ \E k \in K, m \in ClientMsgs : ClientRequest(k, m)
    \/ \E k \in K : RouteStep(k)
    \/ \E k \in K : UnaryStep(k)
    \/ \E k \in K : PumpStep(k)

ClockNext ==
    \/ Tick
    \/ CleanupTick

\* the whole Relay
Next == ExitNext \/ HandlerNext(Handlers) \/ ClockNext

Spec == Init /\ [][Next]_vars

\* Exit tunnels and one Client stream at a time, between two firings of the ticker
NextRouting == ExitNext \/ HandlerNext({1})

SpecRouting == Init /\ [][NextRouting]_vars

\* Exit tunnels, the clock and the cleanup ticker, with no Client traffic
NextTimed == ExitNext \/ ClockNext

SpecTimed == Init /\ [][NextTimed]_vars

\* the handler goroutine of connection c, once registered, keeps running
HandlerRuns(c) == HandleHeartbeat(c) \/ WriteHeartbeatAck(c) \/ Teardown(c)

SpecTimedFair == SpecTimed /\ \A c \in Conns : WF_vars(HandlerRuns(c))

\* Exits that all hold the same key and concurrent Client Requests for it
SameKeyRegister == [type |-> "Register", target |-> 1, payload |-> 1]

SameKeyRequest == [type |-> "Request", target |-> 1, payload |-> 1]

NextSameKey ==
    \/ \E c \in Conns : ExitConnect(c, SameKeyRegister)
    \/ \E c \in Conns : ExitStep(c)
    \/ \E k \in Handlers : ClientRequest(k, SameKeyRequest)
    \/ \E k \in Handlers : RouteStep(k)
    \/ \E k \in Handlers : UnaryStep(k)

SpecSameKey == Init /\ [][NextSameKey]_vars

\* Exits that all hold the same key, one Client stream, the clock and the ticker
NextSameKeyTimed ==
    \/ \E c \in Conns : ExitConnect(c, SameKeyRegister)
    \/ \E c \in Conns : ExitStep(c)
    \/ ClientRequest(1, SameKeyRequest)
    \/ RouteStep(1)
    \/ UnaryStep(1)
    \/ ClockNext

SpecSameKeyTimed == Init /\ [][NextSameKeyTimed]_vars

\* the Relay from Start to Stop: one key, the Client connection with one stream
ReadFailsOnClosed(k) == ReadResponseFails(k) /\ ~Alive(conn, hconn[k])

StopStep ==
    \/ StopCancel
    \/ \E closesConns \in BOOLEAN : StopCloseListener(closesConns)
    \/ StopReturns

AcceptedConnEnds == \E c \in Conns \cup {ClientConn} : ListenerSocketGone(c)

NextStop ==
    \/ \E c \in Conns \cup {ClientConn} : AcceptConn(c)
    \/ SpawnHandler(SameKeyRegister)
    \/ StartSeesDone
    \/ StartReturns
    \/ StopStep
    \/ AcceptedConnEnds
    \/ \E c \in Conns : HandleRegister(c) \/ RegistryRegister(c) \/ Teardown(c) \/ ExitClose(c)
    \/ ClientStreamOpens(1)
    \/ StreamDecodeFails(1)
    \/ hpc[1] = "decode" /\ cconn = "open" /\ ClientRequest(1, SameKeyRequest)
    \/ RouteStep(1)
    \/ UnaryStep(1)
    \/ ClientHandlerStops
    \/ ClientHandlerDone
    \/ ClientClose

SpecStop == Init /\ [][NextStop]_vars

\* every step the Relay takes on its own is taken eventually; what the peers
\* send, and when, is up to them
RelayRuns ==
    /\ WF_vars(SpawnHandler(SameKeyRegister))
    /\ WF_vars(StartSeesDone)
    /\ WF_vars(StartReturns)
    /\ WF_vars(StopStep)
    /\ WF_vars(AcceptedConnEnds)
    /\ \A c \in Conns : WF_vars(HandleRegister(c) \/ RegistryRegister(c) \/ Teardown(c))
    /\ WF_vars(StreamDecodeFails(1))
    /\ WF_vars(OpenStream(1) \/ OpenStreamFails(1))
    /\ WF_vars(WriteRequest(1))
    /\ WF_vars(ReadFailsOnClosed(1))
    /\ WF_vars(ClientHandlerStops)
    /\ WF_vars(ClientHandlerDone)

SpecStopFair == SpecStop /\ RelayRuns

\* the Exit tunnel alone, with a Relay that comes and goes, until Stop
NextTunnel ==
    \/ TunnelStep
    \/ WaitInterrupted
    \/ WatchSeesStop
    \/ TunnelStopStep
    \/ TunnelConnLost
    \/ RelayFails
    \/ RelayRecovers

SpecTunnel == Init /\ [][NextTunnel]_vars

\* the Exit tunnel that is never stopped; its own steps are taken eventually and
\* a Relay that is unreachable becomes reachable again
NextTunnelRun ==
    \/ TunnelStep
    \/ TunnelConnLost
    \/ RelayFails
    \/ RelayRecovers

SpecTunnelRun == Init /\ [][NextTunnelRun]_vars /\ WF_vars(TunnelStep) /\ WF_vars(RelayRecovers)

\* the Exit tunnel that is never stopped, serving the streams the Relay opens
NextExitRequest ==
    \/ NextTunnelRun
    \/ ExitRequestStep

SpecExitRequest == Init /\ [][NextExitRequest]_vars

\* one StreamRequest for the one key, pumped from an Exit that may write any frame
SameKeyStreamRequest == [type |-> "StreamRequest", target |-> 1, payload |-> 1]

NextPump ==
    \/ \E c \in Conns : ExitConnect(c, SameKeyRegister) \/ HandleRegister(c)
                            \/ RegistryRegister(c) \/ Teardown(c) \/ ExitClose(c)
    \/ ClientRequest(1, SameKeyStreamRequest)
    \/ RouteStep(1)
    \/ \E f \in ExitFrames, written \in BOOLEAN : ForwardChunk(1, f, written)
    \/ ReadChunkFails(1)

SpecPump == Init /\ [][NextPump]_vars

\* Requests with either payload for either key, each answered by an Exit that
\* may write any frame
UnaryRequests ==
    {[type |-> "Request", target |-> h, payload |-> p] : h \in Hashes, p \in {1, 2}}

NextUnary ==
    \/ \E c \in Conns, m \in RegisterMsgs : ExitConnect(c, m)
    \/ \E c \in Conns : HandleRegister(c) \/ RegistryRegister(c) \/ Teardown(c) \/ ExitClose(c)
    \/ \E m \in UnaryRequests : ClientRequest(1, m)
    \/ RouteStep(1)
    \/ \E f \in UnaryReplies, written \in BOOLEAN : ForwardReply(1, f, written)
    \/ ReadResponseFails(1)

SpecUnary == Init /\ [][NextUnary]_vars

\* the Exit tunnel that is never stopped, with the handlers of the streams the
\* Relay opens on it: handleIncomingStream up to the first message it writes,
\* and writeStreamChunks on the body of a StreamRequest
NextExitServe ==
    \/ TunnelStep
    \/ TunnelConnLost
    \/ RelayRecovers
    \/ spc \notin {"scan", "end"} /\ ExitRequestStep
    \/ \E n \in 0..MaxEvents, e \in {"eof", "error"} :
           /\ xpc = "done" /\ xmsg = "StreamRequest" /\ xout.type = "StreamChunk"
           /\ StreamRequestArrives(TRUE, n, e)
    \/ \E encrypted, written \in BOOLEAN : ScanEvent(encrypted, written)
    \/ ScanStops
    \/ \E written, errWritten \in BOOLEAN : WriteStreamEnd(written, errWritten)

SpecExitServe == Init /\ [][NextExitServe]_vars

\* The Exit tunnel and the Relay's handler of its connection, side by side: the
\* Relay accepts the connection once the tunnel wrote its Register message, the
\* tunnel reads the RegisterAck once the Relay wrote it, and a Client asks the
\* Relay for the key list or for the tunnel's Exit at any moment.
TunnelConn == 1

TunnelRegister == [type |-> "Register", target |-> 1, payload |-> 1]

ReadyRequests ==
    {[type |-> "QueryExitKeys", target |-> NoTarget, payload |-> 0],
     [type |-> "Request", target |-> TunnelRegister.target, payload |-> 1]}

NextReady ==
    \/ RelayRecovers
    \/ TunnelCheck
    \/ WaitDone
    \/ DialFails
    \/ DialOk
    \/ WriteRegister
    \/ tpc = "ack" /\ ExitConnect(TunnelConn, TunnelRegister)
    \/ HandleRegister(TunnelConn)
    \/ regStream[TunnelConn] = "RegisterAck" /\ ReadAck
    \/ StartLoops
    \/ RegistryRegister(TunnelConn)
    \/ \E m \in ReadyRequests : ClientRequest(1, m)

SpecReady == Init /\ [][NextReady]_vars

\* the Exit's writeStreamChunks on bodies that end in any way: at the end of
\* the last event ("eof"), with a failed read ("error"), or after the lines of
\* one more event that no empty line terminates ("unterminated")
BodyEnds == {"eof", "error", "unterminated"}

NextStreamEvents ==
    \/ \E prepared \in BOOLEAN, n \in 0..MaxEvents, e \in BodyEnds :
           StreamRequestArrives(prepared, n, e)
    \/ \E encrypted, written \in BOOLEAN : ScanEvent(encrypted, written)
    \/ ScanStops
    \/ \E written, errWritten \in BOOLEAN : WriteStreamEnd(written, errWritten)

SpecStreamEvents == Init /\ [][NextStreamEvents]_vars

\* Register calls alone: Exits connect and register, nothing disconnects
NextRegister ==
    \/ \E c \in Conns, m \in FirstMsgs : ExitConnect(c, m)
    \/ \E c \in Conns : HandleRegister(c)
    \/ \E c \in Conns : RegistryRegister(c)

SpecRegister == Init /\ [][NextRegister]_vars

(***************************************************************************)
(* Properties.                                                             *)
(***************************************************************************)
Registered(c) == pc[c] \in {"serving", "hbRead", "hbAck"}

HashOf(c) == regMsg[c].target

KeysListedFor(h) == {e \in ListExitKeys(entries) : e.pub_key_hash = h}

\* C1: once X' has completed the Register handshake for the hash H of a
\* registered Exit X, X's connection is closed by the Relay, and from then on
\* (also after X's handler has torn down) Lookup(H) returns X' and ListExitKeys
\* holds exactly one entry for H, as long as X' stays connected, is not replaced
\* and is not evicted by the heartbeat cleanup.
C1_ReplacementKeepsNewExit ==
    \A x \in Conns, y \in Conns :
        ( /\ x # y
          /\ conn[x] = "replaced by new connection"
          /\ HashOf(x) = HashOf(y)
          /\ Registered(y)
          /\ lastReg[HashOf(y)] = y
          /\ Alive(conn, y) )
        => /\ LookupOk(entries, HashOf(y))
           /\ Lookup(entries, HashOf(y)) = y
           /\ regMsg[y].payload # EmptyKeyConfig => Cardinality(KeysListedFor(HashOf(y))) = 1

\* C2: the registry holds at most one entry per pubKeyHash, and the connection
\* stored in an entry is the connection whose Register handshake created the
\* entry: it registered this hash, was acknowledged, and no connection
\* registered the hash after it.
C2_EntryHoldsItsRegistrant ==
    /\ \A h1 \in DOMAIN entries, h2 \in DOMAIN entries :
           entries[h1].pubKeyHash = entries[h2].pubKeyHash => h1 = h2
    /\ \A h \in DOMAIN entries :
           LET c == entries[h].conn IN
           /\ entries[h].pubKeyHash = h
           /\ c \in Conns
           /\ regMsg[c].type = "Register"
           /\ HashOf(c) = h
           /\ entries[h].keyConfig = regMsg[c].payload
           /\ pc[c] \notin {"idle", "regRead", "acked"}
           /\ lastReg[h] = c
           /\ conn[c] # "replaced by new connection"

\* C2 witness: an entry that replaced an earlier registration of its hash.
C2_Witness ==
    \E h \in DOMAIN entries, x \in Conns :
        /\ x # entries[h].conn
        /\ HashOf(x) = h
        /\ conn[x] = "replaced by new connection"

\* the step in which handler k writes the request on the Exit stream
ForwardsOn(k) == hpc[k] = "write" /\ hpc'[k] = "await"

\* the step in which handler k fails to open a stream and calls RemoveIfMatch
OpenFailsOn(k) == hpc[k] = "open" /\ hpc'[k] = "done"

\* the step in which the handler of connection c calls Register
RegistersOn(c) == pc[c] = "acked" /\ pc'[c] = "serving"

\* C3: a connection a successful Lookup(h) returns is the connection of the
\* Exit that registered h most recently or one on which no stream can be
\* opened, and the Relay never forwards a request for h over a live connection
\* of an earlier registration of h or of another hash.
C3_NoMisrouting ==
    [][ /\ \A h \in DOMAIN entries :
               entries[h].conn = lastReg[h] \/ ~Alive(conn, entries[h].conn)
        /\ \A k \in Handlers :
               ForwardsOn(k) =>
                   /\ HashOf(hconn[k]) = hmsg[k].target
                   /\ hconn[k] = lastReg[hmsg[k].target] ]_vars

\* C4: an entry is inserted only for a connection on whose registration stream
\* RegisterAck was written, so a request is forwarded only onto a connection
\* that was acknowledged; a connection whose RegisterAck could not be written
\* never registers.
C4_AckBeforeRegister ==
    /\ \A h \in DOMAIN entries : regStream[entries[h].conn] = "RegisterAck"
    /\ \A k \in Handlers :
           exitOut[k] # NoMsg => regStream[hconn[k]] = "RegisterAck"
    /\ \A c \in Conns :
           regStream[c] # "RegisterAck" =>
               /\ \A h \in Hashes : lastReg[h] # c
               /\ \A h \in DOMAIN entries : entries[h].conn # c
               /\ pc[c] \in {"idle", "regRead", "done"}

\* C4 witness: a request was forwarded onto a registered connection, and a
\* connection that sent a valid Register but could not be acknowledged is done.
C4_Witness ==
    /\ \E k \in Handlers : exitOut[k] # NoMsg /\ hconn[k] \in Conns
    /\ \E c \in Conns :
           /\ pc[c] = "done"
           /\ regMsg[c].type = "Register"
           /\ HashOf(c) # NoTarget
           /\ regStream[c] = "none"

\* C5: RemoveIfMatch(h, c1) deletes the entry exactly when it holds c1 and
\* returns false otherwise, and Register(h, c2) always leaves c2 registered, so
\* in either order of the two calls c2 is registered under h afterwards.
C5_RemoveIfMatchSparesNewer ==
    [][ /\ \A k \in Handlers :
               OpenFailsOn(k) =>
                   LET h == hmsg[k].target
                       c1 == hconn[k]
                   IN  IF h \in DOMAIN entries /\ entries[h].conn # c1
                       THEN /\ entries' = entries
                            /\ ~RemoveIfMatchResult(entries, h, c1)
                       ELSE /\ h \notin DOMAIN entries'
                            /\ RemoveIfMatchResult(entries, h, c1) = (h \in DOMAIN entries)
        /\ \A c2 \in Conns :
               RegistersOn(c2) =>
                   /\ HashOf(c2) \in DOMAIN entries'
                   /\ entries'[HashOf(c2)].conn = c2 ]_vars

\* C5 witness: c2 registered h while handler k held c1 from its Lookup, then
\* k's RemoveIfMatch(h, c1) ran, and c2 is registered.
C5_Witness ==
    \E k \in Handlers :
        /\ hpc[k] = "done"
        /\ hmsg[k].type \in {"Request", "StreamRequest"}
        /\ clientOut[k] = <<Error("exit connection failed")>>
        /\ hconn[k] \in Conns
        /\ conn[hconn[k]] = "replaced by new connection"
        /\ hmsg[k].target \in DOMAIN entries
        /\ entries[hmsg[k].target].conn # hconn[k]
        /\ entries[hmsg[k].target].conn = lastReg[hmsg[k].target]

RegisteredFor(h) == {c \in Conns : Registered(c) /\ HashOf(c) = h}

\* C6: after Register calls for one hash with distinct connections, exactly
\* one entry exists for the hash, it holds the connection of the call
\* serialized last, every other call's connection has been closed, and the
\* winning connection has not been closed.
C6_LastRegisterWins ==
    \A h \in Hashes :
        RegisteredFor(h) # {} =>
            /\ h \in DOMAIN entries
            /\ Cardinality({g \in DOMAIN entries : entries[g].pubKeyHash = h}) = 1
            /\ Lookup(entries, h) = lastReg[h]
            /\ lastReg[h] \in RegisteredFor(h)
            /\ \A c \in RegisteredFor(h) \ {lastReg[h]} :
                   conn[c] = "replaced by new connection"
            /\ Alive(conn, lastReg[h])

\* C6 witness: two connections have registered the same hash.
C6_Witness == \E h \in Hashes : Cardinality(RegisteredFor(h)) >= 2

\* the step in which the cleanup ticker fires and cleanup runs
CleanupRuns == nextCleanup' # nextCleanup

\* the step in which the handler of connection c calls UpdateHeartbeat
HeartbeatOn(c) == pc[c] = "hbRead" /\ pc'[c] = "hbAck"

\* the registry entry is the one connection c registered
Holds(es, c) == HashOf(c) \in DOMAIN es /\ es[HashOf(c)].conn = c

\* C7: a heartbeat served for a registered Exit stamps its entry with the
\* current time, and a cleanup pass that runs no more than TTL after the last
\* heartbeat of a connected Exit leaves that Exit's entry as it is and does
\* not close its connection.
C7_HeartbeatKeepsEntry ==
    [][ /\ \A c \in Conns :
               (HeartbeatOn(c) /\ Holds(entries, c)) =>
                   /\ Holds(entries', c)
                   /\ entries'[HashOf(c)].lastHeartbeat = now
        /\ CleanupRuns =>
               \A c \in Conns :
                   (Registered(c) /\ Alive(conn, c) /\ now - lastBeat[c] <= TTL) =>
                       /\ Alive(conn', c)
                       /\ Holds(entries, c) =>
                              /\ Holds(entries', c)
                              /\ entries'[HashOf(c)] = entries[HashOf(c)] ]_vars

\* C7 witness: an Exit registered for longer than TTL is still registered and
\* connected after the cleanup pass of the current instant, thanks to a
\* heartbeat.
C7_Witness ==
    \E c \in Conns :
        /\ Holds(entries, c)
        /\ Alive(conn, c)
        /\ now - entries[HashOf(c)].registeredAt > TTL
        /\ entries[HashOf(c)].lastHeartbeat > entries[HashOf(c)].registeredAt
        /\ lastBeat[c] = entries[HashOf(c)].lastHeartbeat
        /\ now < nextCleanup

\* C8: the registry holds no entry for longer than TTL + TTL/2 after the last
\* heartbeat of the Exit whose connection the entry holds: once that time has
\* passed and the cleanup of the instant has run, the entry is gone.
C8_SilentExitEvicted ==
    \A h \in DOMAIN entries :
        LET silent == now - lastBeat[entries[h].conn] IN
        \/ silent < TTL + TTL \div 2
        \/ silent = TTL + TTL \div 2 /\ now >= nextCleanup

\* C9: UpdateHeartbeat for a hash with no entry leaves the registry as it is:
\* Lookup still misses, Count and ListExitKeys are unchanged.
C9_LateHeartbeatNoGhost ==
    [][ \A c \in Conns :
            (HeartbeatOn(c) /\ HashOf(c) \notin DOMAIN entries) =>
                /\ entries' = entries
                /\ ~LookupOk(entries', HashOf(c))
                /\ Count(entries') = Count(entries)
                /\ ListExitKeys(entries') = ListExitKeys(entries) ]_vars

\* C9 witness: the handler of an evicted connection has served a heartbeat
\* that was read before the eviction, and the hash has no entry.
C9_Witness ==
    \E c \in Conns :
        /\ pc[c] = "hbAck"
        /\ conn[c] = "heartbeat timeout"
        /\ HashOf(c) \notin DOMAIN entries

\* C10: when no stream can be opened on the connection c found for Target h,
\* the Client gets exactly Error "exit connection failed", nothing is sent to
\* any Exit, no connection is closed, and the entry for h is removed if it
\* holds c and left as it is if it holds another connection.
C10_OpenFailureRemovesOwnEntry ==
    [][ \A k \in Handlers :
            OpenFailsOn(k) =>
                /\ clientOut'[k] = <<Error("exit connection failed")>>
                /\ exitOut' = exitOut
                /\ conn' = conn
                /\ IF Lookup(entries, hmsg[k].target) = hconn[k]
                   THEN entries' = Remove(entries, hmsg[k].target)
                   ELSE entries' = entries ]_vars

\* C10 witness: a stream request failed on a connection the Exit had closed,
\* after another Exit registered the target, and the newer entry is in place.
C10_Witness ==
    \E k \in Handlers :
        /\ hpc[k] = "done"
        /\ hmsg[k].type = "StreamRequest"
        /\ clientOut[k] = <<Error("exit connection failed")>>
        /\ hconn[k] \in Conns
        /\ LookupOk(entries, hmsg[k].target)
        /\ Lookup(entries, hmsg[k].target) # hconn[k]

\* the step in which the handler of connection c deals with the first message
FirstMessageOn(c) == pc[c] = "regRead" /\ pc'[c] # "regRead"

\* a decoded first message that is not a Register with a non-empty Target
Unregistrable(m) ==
    /\ m.type \notin {"none", "Malformed"}
    /\ m.type # "Register" \/ m.target = NoTarget

TeardownOn(c) == Registered(c) /\ pc'[c] = "done"

\* C12: the handler of a registered Exit whose connection has closed returns;
\* when it returns it calls Remove(hash) and closes the connection, and from
\* then on no registry entry holds that connection.
C12_TeardownRemovesEntry ==
    /\ [][ \A c \in Conns :
               TeardownOn(c) =>
                   /\ ~Alive(conn, c)
                   /\ entries' = Remove(entries, HashOf(c))
                   /\ ~Alive(conn', c)
                   /\ \A h \in DOMAIN entries' : entries'[h].conn # c ]_vars
    /\ [](\A c \in Conns :
              pc[c] = "done" => \A h \in DOMAIN entries : entries[h].conn # c)
    /\ \A c \in Conns : (Registered(c) /\ ~Alive(conn, c)) ~> (pc[c] = "done")

\* C12 witness: an Exit that was the registrant of its hash lost its
\* connection, its handler has returned, and the hash has no entry.
C12_Witness ==
    \E c \in Conns :
        /\ pc[c] = "done"
        /\ regStream[c] = "RegisterAck"
        /\ conn[c] = "closed by peer"
        /\ lastReg[HashOf(c)] = c
        /\ HashOf(c) \notin DOMAIN entries

\* a handler goroutine of the server is running
HandlerRunning ==
    \/ \E c \in Conns : pc[c] \notin {"idle", "done"}
    \/ cpc \in {"accepting", "draining"}
    \/ \E k \in Handlers : hpc[k] \notin {"idle", "done"}

\* C13: once QUICServer.Stop has returned, no connection handler and no stream
\* handler is running, and none is started afterwards.
C13_StopJoinsHandlers == stopPc = "returned" => ~HandlerRunning

ScheduledWait(n) == Min(2 ^ (n - 1), maxBackoff)

\* C15: in every run of consecutive failed attempts, in Start as in the reconnect
\* loop, the n-th backoff wait lasts min(2^(n-1), 60) seconds: 1, 2, 4, ..., 60.
C15_BackoffSchedule == nwait > 0 => lastWait = ScheduledWait(nwait)

\* C16: Ready is signalled exactly once, by Start after the first RegisterAck:
\* it is open until a registration has succeeded, closed from the moment Start
\* has left its connect loop, and no reconnection signals it again.
C16_ReadyOnceAfterFirstAck ==
    /\ [](/\ readyFires <= 1
          /\ (ready = "closed") = (readyFires = 1)
          /\ ready = "closed" => acks >= 1
          /\ (ready = "closed") = (tphase = "reconnect"))
    /\ [][ready = "closed" => (ready' = "closed" /\ readyFires' = readyFires)]_vars

\* Ready was signalled once and the tunnel has registered again since
C16_Witness == ready = "closed" /\ readyFires = 1 /\ acks = 2 /\ tpc = "watch" /\ tconn = "open"

\* C17: after Stop was called the tunnel writes no Register and starts no
\* heartbeat or accept loop, and once Stop and the state machine have both
\* returned no connection the tunnel dialled is open.
C17_StopHaltsTunnel ==
    /\ ~sentAfterStop
    /\ ~loopsAfterStop
    /\ (tctx = "stopped" /\ tpc = "returned") => (tconn # "open" /\ dconn # "open")

\* SERVE: the tunnel waits on a live registered connection with its loops running
Serving == tpc = "watch" /\ tconn = "open" /\ loops = "running"

\* the reconnect loop is at work: the connection ended and none replaced it yet
Reconnecting == tphase = "reconnect" /\ tconn = "closed"

\* C18: when the tunnel's connection has ended and Stop is not called, the
\* reconnect loop completes a new handshake and serves again once a Relay is
\* reachable, and an attempt made while the Relay is reachable succeeds: the
\* tunnel registers on the first attempt after the Relay came back.
C18_ReconnectReenters ==
    /\ Reconnecting ~> Serving
    /\ [][(tpc = "select" /\ relayUp /\ tpc' # "select") => tpc' = "register"]_vars
    /\ [][(Reconnecting /\ tpc = "ack" /\ relayUp /\ tpc' # "ack") =>
              (tconn' = "open" /\ tpc' = "registered" /\ acks' = Min(acks + 1, MaxAcks))]_vars

\* the tunnel serves on a connection of its reconnect loop, after failed attempts
C18_Witness == Serving /\ tphase = "reconnect" /\ acks = 2 /\ outages >= 2 /\ lastWait >= 4

Contains(out, t) == \E i \in 1..Len(out) : out[i] = t

\* the handler read the whole body and the read that ended it failed
BodyReadFailed == spc = "done" /\ bodyEnd = "error" /\ events = 0

\* C19: when the read of the backend body fails after streaming has begun, the
\* stream toward the Relay (if every write on it succeeded) ends with an Error
\* message and carries no StreamEnd;
\* a StreamEnd is written only after a body that ended normally.
C19_BackendErrorEndsWithError ==
    /\ (BodyReadFailed /\ ~sbroken) =>
           (sout # <<>> /\ sout[Len(sout)] = "Error" /\ ~Contains(sout, "StreamEnd"))
    /\ (spc = "done" /\ Contains(sout, "StreamEnd")) => (bodyEnd = "eof" /\ events = 0)

Terminator(m) == m.type \in {"StreamEnd", "Error"}

\* the pump of handler k has run: its StreamRequest was written to the Exit
Pumping(k) == hmsg[k].type = "StreamRequest" /\ exitOut[k] # NoMsg /\ hpc[k] \in {"await", "done"}

\* the bytes written to the Client stream are, one for one, the frames read
SameFrames(out, in) == \A i \in 1..Len(out) : Encode(out[i]) = in[i]

\* C20: the Relay writes to the Client stream the messages it reads from the
\* Exit stream, byte for byte and in order (all of them, or all but the last
\* when the write of the last failed, which ends the pump); only the last one
\* forwarded can be a StreamEnd or an Error, and after it the pump has ended.
C20_PumpVerbatim ==
    /\ [](\A k \in Handlers : Pumping(k) =>
              /\ Len(clientOut[k]) \in {Len(exitIn[k]), Len(exitIn[k]) - 1}
              /\ Len(clientOut[k]) < Len(exitIn[k]) => hpc[k] = "done"
              /\ SameFrames(clientOut[k], exitIn[k])
              /\ \A i \in 1..Len(clientOut[k]) :
                     Terminator(clientOut[k][i]) => (i = Len(exitIn[k]) /\ hpc[k] = "done"))
    /\ [][\A k \in Handlers : (Pumping(k) /\ hpc[k] = "done") =>
              (clientOut'[k] = clientOut[k] \/ ~Pumping(k)')]_vars

\* a chunk and an unexpected message were forwarded, then the terminator
C20_Witness ==
    /\ Pumping(1) /\ hpc[1] = "done"
    /\ Len(clientOut[1]) = MaxChunks + 1
    /\ clientOut[1][1].type = "Response" /\ clientOut[1][1].target = 1
    /\ clientOut[1][Len(clientOut[1])].type = "StreamEnd"
    /\ clientOut[1][Len(clientOut[1])].payload = ""

\* handler k holds a Request or StreamRequest that names a target and got no connection
Missed(k) ==
    /\ hmsg[k].type \in {"Request", "StreamRequest"}
    /\ hmsg[k].target # NoTarget
    /\ hconn[k] = NoConn

\* C22: a Request or StreamRequest whose Target has no registry entry is answered
\* by the single message Error "exit not found" and nothing is written to any
\* Exit; the answer is given only when the registry has no entry for the Target.
C22_ExitNotFound ==
    /\ [](\A k \in Handlers : Missed(k) =>
              /\ hpc[k] = "done"
              /\ Len(clientOut[k]) = 1
              /\ clientOut[k][1].type = "Error"
              /\ clientOut[k][1].payload = "exit not found"
              /\ exitOut[k] = NoMsg)
    /\ [][\A k \in Handlers :
              (hmsg'[k].type \in {"Request", "StreamRequest"} /\ hmsg'[k].target # NoTarget
                   /\ (hmsg'[k] # hmsg[k] \/ hconn'[k] # hconn[k]))
              => (Missed(k)' <=> ~LookupOk(entries, hmsg'[k].target))]_vars

\* a StreamRequest for an unregistered hash was refused while another hash is registered
C22_Witness ==
    \E k \in Handlers :
        /\ Missed(k) /\ hmsg[k].type = "StreamRequest" /\ hpc[k] = "done"
        /\ Len(clientOut[k]) = 1 /\ clientOut[k][1].payload = "exit not found"
        /\ hmsg[k].target \notin DOMAIN entries
        /\ entries # <<>>

\* the elements a snapshot of registry es must list
KeyedEntries(es) ==
    {[pub_key_hash |-> h, key_config |-> es[h].keyConfig] :
        h \in {x \in DOMAIN es : es[x].keyConfig # EmptyKeyConfig}}

\* handler k answers a QueryExitKeys in this step
AnswersQuery(k) == hmsg'[k].type = "QueryExitKeys" /\ <<hmsg[k], hpc[k], clientOut[k]>> # <<hmsg'[k], hpc'[k], clientOut'[k]>>

BackendErrorAnswered ==
    /\ xpc = "done"
    /\ xstatus \in BackendStatuses \ {200}
    /\ ~(xout.type = "Error" /\ xout.payload[2] = "encrypt response failed")

\* C30: when the AI backend answers a request with an HTTP error status, the
\* Exit's handler writes the encapsulated answer as the normal response of the
\* request, not an Error message.
C30_BackendErrorEncapsulated ==
    BackendErrorAnswered =>
        /\ xout.type \in {"Response", "StreamChunk"}
        /\ xout.payload = EncapsulateResponse(xstatus, xbody)

\* the handler is about to decapsulate a Request whose key id or suite is not
\* the Exit's
Refusing ==
    /\ xpc = "decap"
    /\ xmsg = "Request"
    /\ (xreq.keyID # ServerKeyID \/ xreq.suite # OwnSuite)

\* C24: a Request whose OHTTP key id or suite does not match the Exit's fails
\* decapsulation and is answered with the Error "keyID mismatch"; the step
\* changes nothing of the tunnel (its connection stays open and registered), and
\* afterwards the handler still takes the next request while the tunnel serves.
C24_KeyMismatchRefused ==
    /\ [][(Refusing /\ xpc' # xpc) =>
              /\ xpc' = "done"
              /\ xout'.type = "Error"
              /\ xout'.payload = <<"keyID mismatch">>
              /\ UNCHANGED tunnelVars]_vars
    /\ []((xrefused /\ xpc = "done" /\ Serving /\ xserved < MaxServed) =>
              ENABLED IncomingStream(TRUE, "Request",
                          [keyID |-> ServerKeyID, suite |-> OwnSuite, opens |-> TRUE]))

\* the texts of the Error messages of the Relay
RelayErrorTexts ==
    {"expected register message", "missing pubKeyHash", "failed to serialize exit keys",
     "invalid message type", "missing target address", "exit not found",
     "exit connection failed", "write to exit failed", "read exit response failed",
     "request forwarding failed", "stream forwarding failed"}

\* the fixed texts of the Error messages of the Exit
ExitErrorTexts ==
    {<<"decode error">>, <<"process error">>, <<"stream error">>, <<"unknown message type">>}

\* an Error message on a Client stream is one of the Relay's own, or the Exit's
\* reply passed on as it was read
RelayErrorsGeneric ==
    /\ \A k \in Handlers : \A i \in 1..Len(clientOut[k]) :
           clientOut[k][i].type = "Error" =>
               clientOut[k][i].payload \in RelayErrorTexts \cup {Msg("Error").payload}
    /\ \A c \in Conns :
           regStream[c] \in {"none", "RegisterAck", "Error: expected register message",
                             "Error: missing pubKeyHash"}

\* C23: every Error message the Relay or the Exit writes carries one of a fixed
\* set of short texts, with nothing of the error value, the backend's body, an
\* address or a key in it.
C23_GenericErrors ==
    /\ RelayErrorsGeneric
    /\ xout.type = "Error" => xout.payload \in ExitErrorTexts

\* the body is a JSON object with a field named stream whose value is true
StreamFieldTrue(body) ==
    /\ body.kind = "object"
    /\ \E i \in 1..Len(body.fields) : body.fields[i] = <<"stream", "true">>

\* C29: a request is classified streaming exactly when its body is JSON with the
\* boolean field stream equal to true, or its path contains "stream", or its
\* Accept header contains "text/event-stream"; every other request is unary.
C29_DetectStreaming ==
    dresult # "none" =>
        (dresult = "streaming" <=>
            \/ StreamFieldTrue(dbody)
            \/ stringsContains(dpath, Str_stream)
            \/ stringsContains(daccept, Str_eventStream))

\* C25: Decode refuses a frame whose TargetLen exceeds 1024 or whose PayloadLen
\* exceeds 16 MiB: it never returns a message for it, and it neither allocates
\* a buffer of the claimed length nor reads past the length field (the 3 bytes
\* of the header; target and the 4 bytes of PayloadLen) on the way to the error.
C25_DecodeRefusesOversized ==
    /\ [](rtlen > maxTargetSize =>
              (rpc # "ok" /\ ralloc < rtlen /\ rread <= 3))
    /\ []((rtlen <= maxTargetSize /\ rplen > maxPayloadSize) =>
              (rpc # "ok" /\ ralloc < rplen /\ rread <= 7 + rtlen))
    /\ [][(rpc = "header" /\ rread' = 3 /\ rtlen > maxTargetSize) => rpc' = "error"]_vars
    /\ [][(rpc = "length" /\ rread' = rread + 4 /\ rplen > maxPayloadSize) => rpc' = "error"]_vars

\* Decode refused a frame for its PayloadLen though the reader held more bytes
C25_Witness ==
    /\ rpc = "error"
    /\ rtlen = maxTargetSize
    /\ rplen > maxPayloadSize
    /\ rread = 7 + maxTargetSize
    /\ ravail > rread

\* the connections the Client has dialled that are open
OpenConns == {i \in 1..MaxDials : qconn[i] = "open"}

\* C27: the Client has at most one open connection to the Relay at any time,
\* whatever the interleaving of its callers: an open connection is the one
\* c.conn refers to; getConnection returns c.conn while its context is not done
\* and dials nothing then; and c.conn is only changed by the holder of connMu.
C27_OneConnection ==
    /\ [](Cardinality(OpenConns) <= 1 /\ \A i \in OpenConns : kconn = i)
    /\ [][\A p \in Callers :
              (kpc[p] = "check" /\ kpc'[p] # "check" /\ kconn # 0 /\ qconn[kconn] = "open") =>
                  (kgot'[p] = kconn /\ UNCHANGED <<kconn, qconn, dials>>)]_vars
    /\ [][\A p \in Callers :
              (kpc[p] = "check" /\ kpc'[p] # "check" /\ ~(kconn # 0 /\ qconn[kconn] = "open")) =>
                  (kpc'[p] = "connect" /\ mu' = p)]_vars
    /\ [][kconn' # kconn => (mu # 0 /\ kpc[mu] \in {"connect", "dial", "close"})]_vars

\* a caller was given the third connection while the two dialled before it are
\* closed, and the other caller is waiting for the mutex
C27_Witness ==
    /\ dials = 3
    /\ OpenConns = {3}
    /\ \E p, q \in Callers : p # q /\ kgot[p] = 3 /\ kpc[q] = "lock"

\* C21: from the write of the StreamRequest to the return of the StreamResponse
\* (and while the handle is read), the write side of the Client's stream has not
\* been closed.
C21_NoHalfClose ==
    (zsent = "StreamRequest" /\ zpc \in {"written", "decryptor", "handle"}) => zwrite = "open"

\* a call of ReadChunk returns in this step, on a stream that holds a frame
ReadChunkReturns == zpc = "handle" /\ zin # <<>> /\ zin' # zin

\* C28: a ReadChunk takes exactly one framed message from the stream and maps it
\* by its type: a StreamChunk (that opens) gives the bytes that were sealed,
\* StreamEnd gives end-of-stream, Error an error, any other type an error.
C28_ReadChunkByType ==
    [][ReadChunkReturns =>
          /\ zin' = Tail(zin)
          /\ LET f == Head(zin)
             IN  DecodeOk(f) =>
                   /\ (f.type = "StreamChunk" /\ \E e \in Events : EncryptChunk(e) = f.payload) =>
                          (zres'.kind = "bytes" /\ EncryptChunk(zres'.bytes) = f.payload)
                   /\ f.type = "StreamEnd" => zres'.kind = "eof"
                   /\ f.type = "Error" => zres'.kind = "error"
                   /\ f.type \notin {"StreamChunk", "StreamEnd", "Error"} =>
                          zres'.kind = "error"]_vars

\* a ReadChunk on the handle of a StreamRequest took the StreamEnd that was the
\* last frame of the stream and returned end-of-stream
C28_Witness ==
    /\ zpc = "finished"
    /\ zres.kind = "eof"
    /\ zin = <<>>
    /\ zsent = "StreamRequest"

\* the entries a cleanup pass at the current instant finds older than the TTL
Stale == {h \in DOMAIN entries : now - entries[h].lastHeartbeat > TTL}

\* C31: one cleanup(ttl) pass removes exactly the entries whose lastHeartbeat
\* is older than ttl and closes exactly their connections; every other entry
\* stays registered as it was, timestamps included, and no other connection
\* changes its state.
C31_CleanupExact ==
    [][ CleanupRuns =>
            /\ DOMAIN entries' = DOMAIN entries \ Stale
            /\ \A h \in Stale : ~Alive(conn', entries[h].conn)
            /\ \A h \in DOMAIN entries \ Stale : entries'[h] = entries[h]
            /\ \A c \in Conns :
                   (c \notin {entries[h].conn : h \in Stale}) => conn'[c] = conn[c] ]_vars

\* C31 witness: the cleanup pass of the current instant has evicted one Exit
\* for its silence and closed its connection, and has left another Exit
\* registered and connected.
C31_Witness ==
    \E x \in Conns, y \in Conns :
        /\ conn[x] = "heartbeat timeout"
        /\ pc[x] = "serving"
        /\ HashOf(x) \notin DOMAIN entries
        /\ Holds(entries, y)
        /\ Alive(conn, y)
        /\ nextCleanup = now + TTL \div 2

\* the handler of a Request found an Exit registered for its Target
Forwarding(k) == hmsg[k].type = "Request" /\ hconn[k] \in Conns

\* C32: for a Request whose Target has a registered Exit, what the Relay writes
\* to the Exit stream is a Request with empty Target and the Client's payload,
\* and once it has read the Exit's reply it has written to the Client stream
\* exactly that message, unmodified (nothing if that write failed), and
\* nothing else.
C32_UnaryForward ==
    \A k \in Handlers :
        Forwarding(k) =>
            /\ exitOut[k].type # "none" =>
                   /\ exitOut[k].type = "Request"
                   /\ exitOut[k].target = NoTarget
                   /\ exitOut[k].payload = hmsg[k].payload
            /\ exitIn[k] # <<>> =>
                   /\ hpc[k] = "done"
                   /\ Len(exitIn[k]) = 1
                   /\ Len(clientOut[k]) <= 1
                   /\ SameFrames(clientOut[k], exitIn[k])

\* C32 witness: a Request with the second payload was forwarded with its Target
\* emptied, and the Exit's reply, a Response that names a target, reached the
\* Client as it was read.
C32_Witness ==
    /\ Forwarding(1) /\ hpc[1] = "done"
    /\ hmsg[1].target = 1 /\ hmsg[1].payload = 2
    /\ exitOut[1] = [type |-> "Request", target |-> NoTarget, payload |-> 2]
    /\ Len(clientOut[1]) = 1
    /\ clientOut[1][1] = [type |-> "Response", target |-> 1, payload |-> "reply"]
    /\ exitIn[1] = <<Encode(clientOut[1][1])>>

\* what handleIncomingStream has written once it is done with a stream
Replied(t) == xpc = "done" /\ xmsg = t

\* every message before the last one written on the stream of a StreamRequest
\* is a StreamChunk
ChunksFirst == \A i \in 1..Len(sout) - 1 : sout[i] = "StreamChunk"

SelectCalled == lbSelects' # lbSelects

\* C34: when at least one candidate has fewer than 3 recorded failures, Select
\* never returns a candidate that has 3 or more, whichever selector it is and
\* whatever the random draw.
C34_SelectSkipsUnhealthy ==
    [][ SelectCalled =>
            ((\E i \in 1..Len(lbCands') : lbFailures[lbCands'[i]] < healthyThreshold) =>
                 /\ lbPicked' # NoPeer
                 /\ lbFailures[lbPicked'] < healthyThreshold) ]_vars

\* C35: a QueryExitKeys or a Request for the Exit's hash that the Relay handles
\* after the tunnel's Ready signal fired, the Exit's connection still open, is
\* answered with a key list that has the Exit, and is not answered with
\* "exit not found".
HasExit(m) ==
    /\ m.type = "ExitKeysResponse"
    /\ \E e \in m.payload : e.pub_key_hash = TunnelRegister.target

AskedAfterReady ==
    /\ ready = "closed"
    /\ tconn = "open"
    /\ Alive(conn, TunnelConn)
    /\ handlerVars' # handlerVars
    /\ hmsg'[1] \in ReadyRequests

C35_ReadyMeansRegistered ==
    [][AskedAfterReady =>
          IF hmsg'[1].type = "QueryExitKeys"
          THEN HasExit(clientOut'[1][1])
          ELSE clientOut'[1] # <<Error("exit not found")>>]_vars

\* C36: an Exit whose connection is open at the Relay, whose handler is in its
\* heartbeat loop and whose registration was not replaced by a later one for
\* the same hash, has the entry of its hash, and that entry refers to its
\* connection.
Heartbeating(c) == Registered(c) /\ Alive(conn, c)

NotReplaced(c) == lastReg[HashOf(c)] = c

C36_ConnectedExitRegistered ==
    \A c \in Conns : (Heartbeating(c) /\ NotReplaced(c)) => Holds(entries, c)

\* C37: a Heartbeat handled on connection c changes lastHeartbeat of no entry
\* but one that holds connection c; the entry another connection created keeps
\* its lastHeartbeat.
C37_HeartbeatOwnEntryOnly ==
    [][ \A c \in Conns :
            HeartbeatOn(c) =>
                \A h \in DOMAIN entries :
                    entries[h].conn # c =>
                        /\ h \in DOMAIN entries'
                        /\ entries'[h].lastHeartbeat = entries[h].lastHeartbeat ]_vars

\* C38: a Request or StreamRequest the Client wrote has as Target the
\* pubKeyHash of the public key its payload was encapsulated to.
C38_TargetMatchesKey ==
    sendPc = "sent" => sendMsg.target = PubKeyHash(sendMsg.key)

\* C39: when the Relay's handler of a Request or StreamRequest has returned
\* (the Client stream is closed) and no write to the Client stream failed, the
\* last message on the Client stream is a Response, a StreamEnd or an Error.
Terminal(m) == m.type \in {"Response", "StreamEnd", "Error"}

ClientWritesOk(k) == Len(clientOut[k]) >= Len(exitIn[k])

C39_TerminalBeforeClose ==
    \A k \in Handlers :
        (/\ hpc[k] = "done"
         /\ hmsg[k].type \in {"Request", "StreamRequest"}
         /\ ClientWritesOk(k))
        => /\ Len(clientOut[k]) > 0
           /\ Terminal(clientOut[k][Len(clientOut[k])])

\* C40: a stream the Exit ended with StreamEnd carries a StreamChunk for every
\* event of the backend body: no complete event is left unsent and no lines of
\* a last event were left in the buffer.
EndedClean == spc = "done" /\ sout # <<>> /\ sout[Len(sout)] = "StreamEnd"

C40_CleanEndHasEveryEvent ==
    EndedClean => (events = 0 /\ bodyEnd # "unterminated")

====
